---- MODULE Spec2Model ----
(***************************************************************************)
(* Retrieval core of the codebase indexer: SemanticSearch (search.py),     *)
(* HyDEGenerator (hyde.py), CodeReranker / ConfidenceFilter /              *)
(* DiversityFilter (reranker.py) and CodebaseIndexer.search (indexer.py).  *)
(*                                                                         *)
(* Strings are sequences of one-character strings.  Scores are fixed-point *)
(* numbers: the integer One stands for 1.0.                                *)
(***************************************************************************)
EXTENDS Integers, Sequences, FiniteSets, TLC

VARIABLES pc, req, env, out, log, gen, genArgs, genOut, rrfLists, rrfWeights, rrfOut,
          fnArgs, fnOut, translation_cache, toolArgs, toolOut, indexer, cache_dir, threads

vars == <<pc, req, env, out, log, gen, genArgs, genOut, rrfLists, rrfWeights, rrfOut,
          fnArgs, fnOut, translation_cache, toolArgs, toolOut, indexer, cache_dir, threads>>

\* the module-level state of the translation tools and of the agent tools, the
\* files of the embedding cache, and the requests that run on threads
moduleVars == <<translation_cache, toolArgs, toolOut, indexer, cache_dir, threads>>

(***************************************************************************)
(* Fixed-point arithmetic                                                  *)
(***************************************************************************)
One == 12 * 1000 * 1000

Tenths(n) == (n * One) \div 10

Hundredths(n) == n * (One \div 100)

Min(a, b) == IF a <= b THEN a ELSE b

(***************************************************************************)
(* Strings                                                                 *)
(***************************************************************************)
UpperToLower ==
    [c \in {"A","B","C","D","E","F","G","H","I","J","K","L","M",
            "N","O","P","Q","R","S","T","U","V","W","X","Y","Z"} |->
        CASE c = "A" -> "a" [] c = "B" -> "b" [] c = "C" -> "c" [] c = "D" -> "d"
          [] c = "E" -> "e" [] c = "F" -> "f" [] c = "G" -> "g" [] c = "H" -> "h"
          [] c = "I" -> "i" [] c = "J" -> "j" [] c = "K" -> "k" [] c = "L" -> "l"
          [] c = "M" -> "m" [] c = "N" -> "n" [] c = "O" -> "o" [] c = "P" -> "p"
          [] c = "Q" -> "q" [] c = "R" -> "r" [] c = "S" -> "s" [] c = "T" -> "t"
          [] c = "U" -> "u" [] c = "V" -> "v" [] c = "W" -> "w" [] c = "X" -> "x"
          [] c = "Y" -> "y" [] c = "Z" -> "z"]

UpperChars == DOMAIN UpperToLower

LowerChars == {UpperToLower[c] : c \in UpperChars}

DigitChars == {"0","1","2","3","4","5","6","7","8","9"}

\* the characters the regular expression class \w matches
WordChars == UpperChars \cup LowerChars \cup DigitChars \cup {"_"}

\* the characters str.split() and str.strip() treat as white space
SpaceChars == {" ", "\t", "\n"}

\* str.lower()
Lower(s) == [i \in 1..Len(s) |-> IF s[i] \in UpperChars THEN UpperToLower[s[i]] ELSE s[i]]

\* the Python test  w in s  on strings
Contains(s, w) == \E i \in 1..(Len(s) - Len(w) + 1) : SubSeq(s, i, i + Len(w) - 1) = w

\* not text.strip()
IsBlank(s) == \A i \in 1..Len(s) : s[i] \in SpaceChars

RECURSIVE SplitFrom(_, _, _, _, _)
SplitFrom(s, seps, keepEmpty, i, word) ==
    IF i > Len(s)
    THEN IF keepEmpty \/ word # <<>> THEN <<word>> ELSE <<>>
    ELSE IF s[i] \in seps
         THEN (IF keepEmpty \/ word # <<>> THEN <<word>> ELSE <<>>)
                  \o SplitFrom(s, seps, keepEmpty, i + 1, <<>>)
         ELSE SplitFrom(s, seps, keepEmpty, i + 1, Append(word, s[i]))

\* str.split(): split on runs of white space, no empty words
SplitWords(s) == SplitFrom(s, SpaceChars, FALSE, 1, <<>>)

\* str.split('_'): split on every underscore, empty parts kept
SplitUnderscore(s) == SplitFrom(s, {"_"}, TRUE, 1, <<>>)

RECURSIVE TokensFrom(_, _, _)
TokensFrom(s, i, word) ==
    IF i > Len(s)
    THEN IF word # <<>> THEN <<word>> ELSE <<>>
    ELSE IF s[i] \in WordChars
         THEN TokensFrom(s, i + 1, Append(word, s[i]))
         ELSE (IF word # <<>> THEN <<word>> ELSE <<>>) \o TokensFrom(s, i + 1, <<>>)

\* re.findall(r'\b\w+\b', s): the maximal runs of word characters
WordTokens(s) == TokensFrom(s, 1, <<>>)

RECURSIVE CountFrom(_, _, _)
CountFrom(s, w, i) ==
    IF i + Len(w) - 1 > Len(s) THEN 0
    ELSE IF SubSeq(s, i, i + Len(w) - 1) = w
         THEN 1 + CountFrom(s, w, i + Len(w))
         ELSE CountFrom(s, w, i + 1)

\* str.count(w) for a non-empty w: occurrences that do not overlap
Count(s, w) == CountFrom(s, w, 1)

SeqToSet(s) == {s[i] : i \in 1..Len(s)}

(***************************************************************************)
(* The indexed codebase: the rows of the code_chunks table                 *)
(***************************************************************************)
\* Python's None where a string is expected
NoneStr == <<"None">>

Chunks ==
    <<[text        |-> <<"d","e","f"," ","p","a","r","s","e","_","u","s","e","r">>,
       codebase    |-> "main",
       chunk_type  |-> "function",
       name        |-> <<"p","a","r","s","e","_","u","s","e","r">>,
       file_path   |-> <<"a",".","p","y">>,
       language    |-> "python",
       parent_name |-> NoneStr,
       description |-> <<"p","a","r","s","e"," ","u","s","e","r"," ","d","a","t","a">>],
      [text        |-> <<"c","l","a","s","s"," ","U","s","e","r","P","a","r","s","e","r">>,
       codebase    |-> "main",
       chunk_type  |-> "class",
       name        |-> <<"U","s","e","r","P","a","r","s","e","r">>,
       file_path   |-> <<"a",".","p","y">>,
       language    |-> "python",
       parent_name |-> NoneStr,
       description |-> NoneStr],
      [text        |-> <<"d","e","f"," ","g","e","t","_","u","s","e","r">>,
       codebase    |-> "main",
       chunk_type  |-> "method",
       name        |-> <<"g","e","t","_","u","s","e","r">>,
       file_path   |-> <<"a",".","p","y">>,
       language    |-> "python",
       parent_name |-> <<"U","s","e","r","P","a","r","s","e","r">>,
       description |-> <<"g","e","t"," ","u","s","e","r">>],
      [text        |-> <<"d","e","f"," ","l","o","a","d">>,
       codebase    |-> "main",
       chunk_type  |-> "function",
       name        |-> <<"l","o","a","d">>,
       file_path   |-> <<"b",".","p","y">>,
       language    |-> "python",
       parent_name |-> NoneStr,
       description |-> <<"l","o","a","d"," ","j","s","o","n">>],
      [text        |-> <<"d","e","f"," ","a","u","t","h","e","n","t","i","c","a","t","e","_","u","s","e","r">>,
       codebase    |-> "auth",
       chunk_type  |-> "function",
       name        |-> <<"a","u","t","h","e","n","t","i","c","a","t","e","_","u","s","e","r">>,
       file_path   |-> <<"a","u","t","h",".","p","y">>,
       language    |-> "python",
       parent_name |-> NoneStr,
       description |-> <<"V","e","r","i","f","y"," ","u","s","e","r"," ","c","r","e","d","e","n","t","i","a","l","s">>],
      [text        |-> <<"d","e","f"," ","p","a","r","s","e","_","j","s","o","n">>,
       codebase    |-> "auth",
       chunk_type  |-> "function",
       name        |-> <<"p","a","r","s","e","_","j","s","o","n">>,
       file_path   |-> <<"u","t","i","l",".","p","y">>,
       language    |-> "python",
       parent_name |-> NoneStr,
       description |-> <<"P","a","r","s","e"," ","J","S","O","N"," ","t","e","x","t">>]>>

\* the chunks of a codebase: the rows with its codebase_id
ChunksOf(codebase) == {i \in DOMAIN Chunks : Chunks[i].codebase = codebase}

\* the chunks of the codebase the requests search unless they name another
ChunkIds == ChunksOf("main")

\* the two chunks of the second codebase
AuthenticateUser == CHOOSE i \in ChunksOf("auth") : Chunks[i].description = <<"V","e","r","i","f","y"," ","u","s","e","r"," ","c","r","e","d","e","n","t","i","a","l","s">>

ParseJson == CHOOSE i \in ChunksOf("auth") : i # AuthenticateUser

\* the vectors the embedding backend may return for a text
Points == {1, 2}

\* generate_embedding returned None
NoVector == 0

\* cosine distance (in hundredths) of each chunk's content embedding to each vector
ContentDistance ==
    [p \in Points |->
        IF p = 1 THEN <<10, 30, 20, 80>> ELSE <<60, 40, 70, 15>>]

\* cosine distance (in hundredths) of each chunk's description embedding to each
\* vector; a chunk without description has no description embedding
DescriptionDistance ==
    [p \in Points |->
        IF p = 1 THEN <<25, 0, 10, 90>> ELSE <<50, 0, 60, 20>>]

\* the filters of a query: a mapping over chunk_type, language, parent_name;
\* a key the mapping does not hold is marked Absent
Absent == "-"

NoFilters == [chunk_type |-> Absent, language |-> Absent, parent_name |-> <<Absent>>]

FunctionFilter == [NoFilters EXCEPT !.chunk_type = "function"]

PassesFilters(id, filters) ==
    /\ (filters.chunk_type # Absent => Chunks[id].chunk_type = filters.chunk_type)
    /\ (filters.language # Absent => Chunks[id].language = filters.language)
    /\ (filters.parent_name # <<Absent>> => Chunks[id].parent_name = filters.parent_name)

RECURSIVE OrderByDistance(_, _)
OrderByDistance(ids, dist) ==
    IF ids = {} THEN <<>>
    ELSE LET m == CHOOSE i \in ids :
                      \A j \in ids : dist[i] < dist[j] \/ (dist[i] = dist[j] /\ i <= j)
         IN  <<[id |-> m, score |-> Hundredths(dist[m])]>>
                 \o OrderByDistance(ids \ {m}, dist)

Limit(s, k) == SubSeq(s, 1, Min(k, Len(s)))

\* PostgreSQLVectorStore.search: ORDER BY cosine distance LIMIT top_k
VectorStoreSearch(p, k, filters) ==
    Limit(OrderByDistance({i \in ChunkIds : PassesFilters(i, filters)},
                          ContentDistance[p]), k)

\* PostgreSQLVectorStore.search_by_description
VectorStoreSearchByDescription(p, k, filters) ==
    Limit(OrderByDistance({i \in ChunkIds : /\ Chunks[i].description # NoneStr
                                            /\ PassesFilters(i, filters)},
                          DescriptionDistance[p]), k)

\* the rows a search with the all-zero dummy vector returns: every row that
\* passes the filters, in table order
KeywordPool == 1000

VectorStoreScan(k, filters) ==
    Limit(OrderByDistance({i \in ChunkIds : PassesFilters(i, filters)},
                          [i \in ChunkIds |-> 0]), k)

(***************************************************************************)
(* SearchResult: id, score and metadata; the other fields are the chunk's  *)
(***************************************************************************)
SearchResult(id, score, metadata) == [id |-> id, score |-> score, metadata |-> metadata]

\* dict.update
Update(metadata, new) ==
    [k \in DOMAIN metadata \cup DOMAIN new |->
        IF k \in DOMAIN new THEN new[k] ELSE metadata[k]]

RECURSIVE InsertDesc(_, _)
InsertDesc(sorted, r) ==
    IF sorted = <<>> THEN <<r>>
    ELSE IF Head(sorted).score >= r.score
         THEN <<Head(sorted)>> \o InsertDesc(Tail(sorted), r)
         ELSE <<r>> \o sorted

RECURSIVE SortFrom(_, _, _)
SortFrom(s, i, acc) ==
    IF i > Len(s) THEN acc ELSE SortFrom(s, i + 1, InsertDesc(acc, s[i]))

\* list.sort(key=lambda x: x.score, reverse=True): stable, descending
SortByScoreDesc(s) == SortFrom(s, 1, <<>>)

Ids(s) == [i \in 1..Len(s) |-> s[i].id]

\* the 0-based position of an id in a result list, Len(s) when absent
RECURSIVE PositionOf(_, _, _)
PositionOf(s, id, i) ==
    IF i > Len(s) THEN Len(s)
    ELSE IF s[i].id = id THEN i - 1 ELSE PositionOf(s, id, i + 1)

(***************************************************************************)
(* reranker.py: CodeReranker, ConfidenceFilter, DiversityFilter            *)
(***************************************************************************)
StopWords ==
    {<<"t","h","e">>, <<"a">>, <<"a","n">>, <<"a","n","d">>, <<"o","r">>,
     <<"b","u","t">>, <<"i","n">>, <<"o","n">>, <<"a","t">>, <<"t","o">>,
     <<"f","o","r">>, <<"o","f">>, <<"w","i","t","h">>, <<"b","y">>,
     <<"f","r","o","m">>, <<"a","s">>, <<"i","s">>, <<"w","a","s">>,
     <<"a","r","e">>, <<"w","e","r","e">>, <<"b","e","e","n">>, <<"b","e">>,
     <<"h","a","v","e">>, <<"h","a","s">>, <<"h","a","d">>, <<"d","o">>,
     <<"d","o","e","s">>, <<"d","i","d">>, <<"w","i","l","l">>,
     <<"w","o","u","l","d">>, <<"c","o","u","l","d">>,
     <<"s","h","o","u","l","d">>, <<"m","a","y">>, <<"m","i","g","h","t">>,
     <<"m","u","s","t">>, <<"c","a","n">>, <<"t","h","a","t">>,
     <<"t","h","i","s">>, <<"t","h","e","s","e">>, <<"t","h","o","s","e">>,
     <<"i">>, <<"y","o","u">>, <<"h","e">>, <<"s","h","e">>, <<"i","t">>,
     <<"w","e">>, <<"t","h","e","y">>, <<"f","i","n","d">>,
     <<"s","h","o","w">>, <<"g","e","t">>, <<"s","e","a","r","c","h">>,
     <<"l","o","o","k">>, <<"w","h","e","r","e">>, <<"w","h","a","t">>,
     <<"h","o","w">>}

IsKeyword(word) == word \notin StopWords /\ Len(word) > 2

\* CodeReranker._extract_keywords
ExtractKeywords(query) == SelectSeq(WordTokens(Lower(query)), IsKeyword)

\* the length of the run of characters of class cls that starts at position i
RECURSIVE RunLength(_, _, _)
RunLength(s, i, cls) ==
    IF i <= Len(s) /\ s[i] \in cls THEN 1 + RunLength(s, i + 1, cls) ELSE 0

\* the lookahead (?=[A-Z][a-z]|\b) after an upper-case character, at position j
UpperRunMayEndAt(s, j) ==
    \/ j + 1 <= Len(s) /\ s[j] \in UpperChars /\ s[j + 1] \in LowerChars
    \/ j > Len(s)
    \/ s[j] \notin WordChars

\* re.findall(r'[A-Z]?[a-z]+|[A-Z]+(?=[A-Z][a-z]|\b)', name)
RECURSIVE CamelFrom(_, _)
CamelFrom(s, i) ==
    IF i > Len(s) THEN <<>>
    ELSE LET low  == RunLength(s, i, LowerChars)
             low2 == RunLength(s, i + 1, LowerChars)
             up   == RunLength(s, i, UpperChars)
             ends == {n \in 1..up : UpperRunMayEndAt(s, i + n)}
             n    == CHOOSE m \in ends : \A o \in ends : o <= m
         IN  IF s[i] \in UpperChars /\ low2 > 0
             THEN <<SubSeq(s, i, i + low2)>> \o CamelFrom(s, i + low2 + 1)
             ELSE IF low > 0
                  THEN <<SubSeq(s, i, i + low - 1)>> \o CamelFrom(s, i + low)
                  ELSE IF ends # {}
                       THEN <<SubSeq(s, i, i + n - 1)>> \o CamelFrom(s, i + n)
                       ELSE CamelFrom(s, i + 1)

\* the name parts: the camelCase pieces, lower-cased, then the underscore pieces
NameParts(name) ==
    LET camel == CamelFrom(name, 1)
    IN  SeqToSet([i \in 1..Len(camel) |-> Lower(camel[i])])
            \cup SeqToSet(SplitUnderscore(Lower(name)))

\* CodeReranker._fuzzy_match, threshold 0.8
FuzzyMatch(s1, s2) ==
    /\ s1 # <<>>
    /\ s2 # <<>>
    /\ 10 * Cardinality(SeqToSet(s1) \cap SeqToSet(s2))
           >= 8 * Cardinality(SeqToSet(s1) \cup SeqToSet(s2))

RECURSIVE SumSeq(_)
SumSeq(s) == IF s = <<>> THEN 0 ELSE Head(s) + SumSeq(Tail(s))

\* the sum of F over the keywords, as the scoring loops accumulate it
SumOver(s, F(_)) == SumSeq([i \in 1..Len(s) |-> F(s[i])])

\* the score left as the sum over the keywords, capped and not averaged
NameMatchScoreSummed(name, keywords) ==
    IF name = NoneStr \/ name = <<>> \/ keywords = <<>> THEN 0
    ELSE LET Award(kw) == IF kw = Lower(name) THEN Tenths(10)
                          ELSE IF kw \in NameParts(name) THEN Tenths(8)
                          ELSE IF Contains(Lower(name), kw) THEN Tenths(5)
                          ELSE IF FuzzyMatch(kw, Lower(name)) THEN Tenths(3)
                          ELSE 0
         IN  Min(SumOver(keywords, Award), One)

\* CodeReranker._compute_name_match_score
NameMatchScore(name, keywords) ==
    IF name = NoneStr \/ name = <<>> \/ keywords = <<>> THEN 0
    ELSE LET lower == Lower(name)
             parts == NameParts(name)
             Award(kw) == IF kw = lower THEN Tenths(10)
                          ELSE IF kw \in parts THEN Tenths(8)
                          ELSE IF Contains(lower, kw) THEN Tenths(5)
                          ELSE IF FuzzyMatch(kw, lower) THEN Tenths(3)
                          ELSE 0
         IN  Min(SumOver(keywords, Award) \div Len(keywords), One)

\* CodeReranker._compute_description_score
DescriptionScore(description, keywords) ==
    IF description = NoneStr \/ description = <<>> \/ keywords = <<>> THEN 0
    ELSE LET lower == Lower(description)
             Award(kw) == LET count == Count(lower, kw)
                          IN  IF count > 0
                              THEN Min((3 * (10 + 5 * count) * One) \div 100, Tenths(5))
                              ELSE 0
         IN  Min(SumOver(keywords, Award) \div Len(keywords), One)

\* the preferences of _compute_chunk_type_score, in dictionary order
TypePreferences ==
    <<[type |-> "function",
       words |-> {<<"f","u","n","c","t","i","o","n">>, <<"m","e","t","h","o","d">>,
                  <<"d","e","f">>, <<"f","u","n","c">>}],
      [type |-> "class",
       words |-> {<<"c","l","a","s","s">>, <<"o","b","j","e","c","t">>,
                  <<"t","y","p","e">>}],
      [type |-> "method",
       words |-> {<<"m","e","t","h","o","d">>,
                  <<"m","e","m","b","e","r"," ","f","u","n","c","t","i","o","n">>}]>>

DefaultTypeScore(chunk_type) ==
    CASE chunk_type = "function" -> Tenths(8)
      [] chunk_type = "class"    -> Tenths(7)
      [] chunk_type = "method"   -> Tenths(6)
      [] chunk_type = "text"     -> Tenths(3)
      [] OTHER                   -> Tenths(5)

RECURSIVE TypeScoreFrom(_, _, _)
TypeScoreFrom(chunk_type, lower, i) ==
    IF i > Len(TypePreferences) THEN DefaultTypeScore(chunk_type)
    ELSE LET pref == TypePreferences[i]
         IN  IF \E w \in pref.words : Contains(lower, w)
             THEN IF chunk_type = pref.type THEN One
                  ELSE IF /\ chunk_type \in {"function", "method"}
                          /\ pref.type \in {"function", "method"}
                       THEN Tenths(7)
                       ELSE TypeScoreFrom(chunk_type, lower, i + 1)
             ELSE TypeScoreFrom(chunk_type, lower, i + 1)

\* CodeReranker._compute_chunk_type_score
ChunkTypeScore(chunk_type, query) == TypeScoreFrom(chunk_type, Lower(query), 1)

\* CodeReranker._compute_file_path_score
FilePathScore(file_path, keywords) ==
    IF file_path = NoneStr \/ file_path = <<>> \/ keywords = <<>> THEN 0
    ELSE LET lower == Lower(file_path)
             Award(kw) == IF Contains(lower, kw) THEN Tenths(5) ELSE 0
         IN  Min(SumOver(keywords, Award) \div Len(keywords), One)

\* the default weights of CodeReranker, in hundredths
RerankWeights ==
    [vector |-> 40, name_match |-> 25, description |-> 15, chunk_type |-> 10,
     file_path |-> 10]

\* weight * score, for a weight in hundredths
Weighted(w, x) == w * (x \div 100) + (w * (x % 100)) \div 100

\* the RerankScore record, its total the weighted sum of the five signals
RerankScore(vector_score, name_match_score, description_score, chunk_type_score, file_path_score) ==
    [vector_score      |-> vector_score,
     name_match_score  |-> name_match_score,
     description_score |-> description_score,
     chunk_type_score  |-> chunk_type_score,
     file_path_score   |-> file_path_score,
     total_score       |->
         Weighted(RerankWeights.vector, vector_score)
            + Weighted(RerankWeights.name_match, name_match_score)
            + Weighted(RerankWeights.description, description_score)
            + Weighted(RerankWeights.chunk_type, chunk_type_score)
            + Weighted(RerankWeights.file_path, file_path_score)]

\* CodeReranker._compute_score
ComputeScore(r, query, keywords) ==
    RerankScore(r.score,
                NameMatchScore(Chunks[r.id].name, keywords),
                DescriptionScore(Chunks[r.id].description, keywords),
                ChunkTypeScore(Chunks[r.id].chunk_type, query),
                FilePathScore(Chunks[r.id].file_path, keywords))

\* the loop body of rerank: the result takes the total as its score and the
\* signals into its metadata
WithRerankScore(r, s) ==
    SearchResult(r.id, s.total_score,
        Update(r.metadata,
               [rerank_score      |-> s.total_score,
                vector_score      |-> s.vector_score,
                name_match_score  |-> s.name_match_score,
                description_score |-> s.description_score,
                chunk_type_score  |-> s.chunk_type_score,
                file_path_score   |-> s.file_path_score,
                reranked          |-> TRUE]))

RerankOne(r, query, keywords) == WithRerankScore(r, ComputeScore(r, query, keywords))

\* if top_k: results = results[:top_k]; top_k is <<>> for None, else <<k>>
RerankCut(sorted, top_k) ==
    IF top_k # <<>> /\ top_k[1] # 0 THEN Limit(sorted, top_k[1]) ELSE sorted

\* the scored results left in the order they came in
RerankUnsorted(results, query, keywords) ==
    [i \in 1..Len(results) |-> RerankOne(results[i], query, keywords)]

RerankSorted(results, query, keywords) ==
    SortByScoreDesc([i \in 1..Len(results) |-> RerankOne(results[i], query, keywords)])

\* CodeReranker.rerank
Rerank(results, query, top_k) ==
    IF results = <<>> THEN results
    ELSE RerankCut(RerankSorted(results, query, ExtractKeywords(query)), top_k)

ConfidenceMinScore == Tenths(3)

\* the filter that drops a score equal to the threshold too
ConfidenceFilterStrict(results, min_score) ==
    LET Keep(r) == r.score > min_score IN SelectSeq(results, Keep)

\* ConfidenceFilter.filter
ConfidenceFilter(results, min_score) ==
    LET Keep(r) == r.score >= min_score IN SelectSeq(results, Keep)

DiversityMaxPerFile == 2

RECURSIVE DiversityFrom(_, _, _, _)
DiversityFrom(results, max_per_file, i, kept) ==
    IF i > Len(results) THEN kept
    ELSE LET file  == Chunks[results[i].id].file_path
             count == Cardinality({j \in 1..Len(kept) : Chunks[kept[j].id].file_path = file})
         IN  IF count < max_per_file
             THEN DiversityFrom(results, max_per_file, i + 1, Append(kept, results[i]))
             ELSE DiversityFrom(results, max_per_file, i + 1, kept)

\* the filter that lets one result too many through for each file
DiversityFilterOneMore(results, max_per_file) ==
    DiversityFrom(results, max_per_file + 1, 1, <<>>)

\* DiversityFilter.filter
DiversityFilter(results, max_per_file) == DiversityFrom(results, max_per_file, 1, <<>>)

(***************************************************************************)
(* Texts.  A text carries the role it plays in a request (kind) beside its *)
(* characters: "q" the caller's query, "h1" and "h2" the code the HyDE     *)
(* backend wrote in stage 1 and stage 2, "t" a translation of the query.   *)
(***************************************************************************)
Text(kind, s) == [kind |-> kind, s |-> s]

\* Python's None where a generated text is expected
NoText == Text("none", <<>>)

\* not x, for an Optional[str]
Falsy(t) == t.kind = "none" \/ t.s = <<>>

\* what the generation backend writes (markdown fences already stripped)
HydeCode1 == Text("h1", <<"d","e","f"," ","p","a","r","s","e">>)

HydeCode2 == Text("h2", <<"d","e","f"," ","p","a","r","s","e","_","u","s","e","r",
                          "(","d","a","t","a",")">>)

\* what the translation agent answers
Translation == Text("t", <<"u","s","e","r"," ","p","a","r","s","e","r">>)

(***************************************************************************)
(* The collaborators' behaviour during one request                         *)
(*   hyde   SemanticSearch.hyde_generator: None, not enabled, enabled      *)
(*   gen1   the backend's answer to the stage-1 or quick prompt            *)
(*   gen2   the backend's answer to the stage-2 prompt                     *)
(*   q_query .. t_query   what generate_embedding returns for a text and   *)
(*          intent: its vector, or NoVector when it returns None           *)
(*   trans  the translation agent: None, answers, raises                   *)
(*   judge  the relevance judge                                            *)
(*   context  the context manager that formats the results                 *)
(*   index  the codebase in the index: "rows" when it holds the chunks,    *)
(*          "empty" when it holds none, "auth" for the second codebase     *)
(*   d_auth, d_json  the cosine distances (in hundredths) the index        *)
(*          reports for the two chunks of the second codebase              *)
(*   tie    the chunk of the second codebase the index returns first when  *)
(*          the two distances are equal                                    *)
(*   bad    the chunk whose record comes back from the index without its   *)
(*          description field; NoRow when every record is well-formed      *)
(***************************************************************************)
EmbedKeys == {"q_query", "q_doc", "h1_doc", "h2_doc", "t_query"}

\* the vector the embedding model gives each text, for each intent
Embedding ==
    [k \in EmbedKeys |->
        CASE k = "q_query" -> 1
          [] k = "q_doc"   -> 2
          [] k = "h1_doc"  -> 2
          [] k = "h2_doc"  -> 1
          [] k = "t_query" -> 2]

\* no record of the index's answer is malformed
NoRow == 0

\* the cosine distances of pgvector lie between 0 and 2
Distances == {0, 50, 100, 150, 200}

EnvKeys ==
    {"hyde", "gen1", "gen2", "trans", "judge", "context", "index", "bad",
     "d_auth", "d_json", "tie"} \cup EmbedKeys

EnvValues(k) ==
    CASE k = "hyde"   -> {"enabled", "disabled", "absent"}
      [] k = "gen1"   -> {"text", "none", "raise"}
      [] k = "gen2"   -> {"text", "none", "raise"}
      [] k = "trans"  -> {"absent", "changed", "raise"}
      [] k = "judge"  -> {"relevant", "not_relevant", "unavailable", "error"}
      [] k = "context" -> {"ok", "raise"}
      [] k = "index"  -> {"rows", "empty", "auth"}
      [] k = "bad"    -> {NoRow} \cup ChunkIds
      [] k \in {"d_auth", "d_json"} -> Distances
      [] k = "tie"    -> ChunksOf("auth")
      [] OTHER        -> {Embedding[k], NoVector}

DefaultEnv ==
    [k \in EnvKeys |->
        CASE k = "hyde"   -> "enabled"
          [] k = "gen1"   -> "text"
          [] k = "gen2"   -> "text"
          [] k = "trans"  -> "absent"
          [] k = "judge"  -> "relevant"
          [] k = "context" -> "ok"
          [] k = "index"  -> "rows"
          [] k = "bad"    -> NoRow
          [] k \in {"d_auth", "d_json"} -> 0
          [] k = "tie"    -> AuthenticateUser
          [] OTHER        -> Embedding[k]]

\* one entry of the call log: the operation, the collaborator behaviour it
\* consulted ("-" when none), the text or space it was about, and a count
Call(op, key, arg, k) == [op |-> op, key |-> key, arg |-> arg, k |-> k]

\* what an internal method gives back: its return value, the calls it made,
\* and whether it ended by raising an exception
Returned(res, calls) == [res |-> res, log |-> calls, exc |-> FALSE]

Raised(calls) == [res |-> <<>>, log |-> calls, exc |-> TRUE]

EmbedKey(kind, for_query) ==
    CASE kind = "q"  /\ for_query  -> "q_query"
      [] kind = "q"  /\ ~for_query -> "q_doc"
      [] kind = "h1" /\ ~for_query -> "h1_doc"
      [] kind = "h2" /\ ~for_query -> "h2_doc"
      [] kind = "t"  /\ for_query  -> "t_query"

\* EmbeddingGenerator.generate_embedding: None for a blank text, else what the
\* backend gives
GenerateEmbedding(e, text, for_query) ==
    LET key == EmbedKey(text.kind, for_query)
    IN  IF IsBlank(text.s)
        THEN Returned(NoVector, <<Call("generate_embedding", "-", key, 0)>>)
        ELSE Returned(e[key], <<Call("generate_embedding", key, key, 0)>>)

(***************************************************************************)
(* hyde.py: HyDEGenerator.  g is the generator's state [enabled, client],  *)
(* b the backend's behaviour: "text", "none" (no text, or an error inside  *)
(* the backend call, which _generate_with_* turns into None), "raise" (an  *)
(* exception inside the method's own try block)                            *)
(***************************************************************************)
Generator(enabled, client) == [enabled |-> enabled, client |-> client]

\* HyDEGenerator.is_enabled
IsEnabled(g) == g.enabled /\ g.client

\* HyDEGenerator.generate_hyde_query
GenerateHydeQuery(g, query, b) ==
    IF ~g.enabled \/ ~g.client
    THEN Returned(query, <<Call("generate_hyde_query", "-", "", 0)>>)
    ELSE Returned(IF b = "text" THEN HydeCode1 ELSE query,
                  <<Call("generate_hyde_query", "gen1", "", 0)>>)

\* a second stage that, disabled, hands back the original query
GenerateHydeQueryV2ReturningQuery(g, original_query, context, hyde_query_v1, b) ==
    IF ~g.enabled \/ ~g.client
    THEN Returned(original_query, <<Call("generate_hyde_query_v2", "-", "", 0)>>)
    ELSE Returned(IF b = "text" THEN HydeCode2 ELSE hyde_query_v1,
                  <<Call("generate_hyde_query_v2", "gen2", "", 0)>>)

\* HyDEGenerator.generate_hyde_query_v2
GenerateHydeQueryV2(g, original_query, context, hyde_query_v1, b) ==
    IF ~g.enabled \/ ~g.client
    THEN Returned(hyde_query_v1, <<Call("generate_hyde_query_v2", "-", "", 0)>>)
    ELSE Returned(IF b = "text" THEN HydeCode2 ELSE hyde_query_v1,
                  <<Call("generate_hyde_query_v2", "gen2", "", 0)>>)

\* HyDEGenerator.generate_quick_hyde
GenerateQuickHyde(g, query, b) ==
    IF ~g.enabled \/ ~g.client
    THEN Returned(query, <<Call("generate_quick_hyde", "-", "", 0)>>)
    ELSE Returned(CASE b = "text"  -> HydeCode1
                    [] b = "none"  -> NoText
                    [] b = "raise" -> query,
                  <<Call("generate_quick_hyde", "gen1", "", 0)>>)

(***************************************************************************)
(* search.py: SemanticSearch                                               *)
(***************************************************************************)
\* the conversion that takes the distance for the score
ToSearchResultsKeepingDistance(raw, metadata) ==
    [i \in 1..Len(raw) |-> SearchResult(raw[i].id, raw[i].score, metadata)]

\* the conversion loop of _semantic_search and _description_search
ToSearchResults(raw, metadata) ==
    [i \in 1..Len(raw) |-> SearchResult(raw[i].id, One - raw[i].score, metadata)]

\* the index that answers with the rows of the table whatever the codebase
IndexAnswerOfAnyCodebase(e, rows) == rows

\* what the index answers for the request's codebase: no row when it holds
\* no chunk of it
IndexAnswer(e, rows) == IF e["index"] = "empty" THEN <<>> ELSE rows

\* the rows of a set of chunks by rising distance, chunk first before the
\* others at the same distance
RECURSIVE OrderWithTies(_, _, _)
OrderWithTies(ids, dist, first) ==
    IF ids = {} THEN <<>>
    ELSE LET m == CHOOSE i \in ids :
                      \A j \in ids :
                          \/ dist[i] < dist[j]
                          \/ dist[i] = dist[j] /\ (i = first \/ (j # first /\ i <= j))
         IN  <<[id |-> m, score |-> Hundredths(dist[m])]>>
                 \o OrderWithTies(ids \ {m}, dist, first)

\* the distances the index reports for the chunks of the second codebase
AuthDistance(e) ==
    [i \in DOMAIN Chunks |-> IF i = AuthenticateUser THEN e["d_auth"] ELSE e["d_json"]]

\* PostgreSQLVectorStore.search for the request's codebase
IndexSearch(e, p, k, filters) ==
    IF e["index"] = "auth"
    THEN Limit(OrderWithTies({i \in ChunksOf("auth") : PassesFilters(i, filters)},
                             AuthDistance(e), e["tie"]), k)
    ELSE IndexAnswer(e, VectorStoreSearch(p, k, filters))

\* PostgreSQLVectorStore.search_by_description for the request's codebase
IndexSearchByDescription(e, p, k, filters) ==
    IF e["index"] = "auth"
    THEN Limit(OrderWithTies({i \in ChunksOf("auth") : PassesFilters(i, filters)},
                             AuthDistance(e), e["tie"]), k)
    ELSE IndexAnswer(e, VectorStoreSearchByDescription(p, k, filters))

\* the scan with the all-zero dummy vector, for the request's codebase
IndexScan(e, k, filters) ==
    IF e["index"] = "auth"
    THEN Limit(OrderWithTies({i \in ChunksOf("auth") : PassesFilters(i, filters)},
                             [i \in DOMAIN Chunks |-> 0], e["tie"]), k)
    ELSE IndexAnswer(e, VectorStoreScan(k, filters))

\* a record among the rows lacks the description field
HasMalformed(e, rows) == \E i \in 1..Len(rows) : rows[i].id = e["bad"]

\* the conversion loop on the index's answer: result['description'] raises
\* KeyError on a record without the field
Converted(e, raw, metadata, calls) ==
    IF HasMalformed(e, raw) THEN Raised(calls)
    ELSE Returned(ToSearchResults(raw, metadata), calls)

\* a search that queries the index with some vector when it has none
SearchByEmbeddingAnyVector(e, emb, top_k, filters) ==
    Converted(e, IndexSearch(e, IF emb.res = NoVector THEN 1 ELSE emb.res, top_k, filters),
              <<>>, emb.log \o <<Call("search", "-", "content", top_k)>>)

\* the rest of _semantic_search, once the query embedding is there
SearchByEmbedding(e, emb, top_k, filters) ==
    IF emb.res = NoVector
    THEN Returned(<<>>, emb.log)
    ELSE Converted(e, IndexSearch(e, emb.res, top_k, filters), <<>>,
                   emb.log \o <<Call("search", "-", "content", top_k)>>)

\* SemanticSearch._semantic_search
SemanticSearchOp(e, text, top_k, filters, for_query) ==
    SearchByEmbedding(e, GenerateEmbedding(e, text, for_query), top_k, filters)

\* the number of query words (with repetitions) that occur in a text
WordHits(query_words, text) ==
    Cardinality({i \in 1..Len(query_words) : Contains(text, query_words[i])})

\* the score that counts a name match once
KeywordScoreNameOnce(id, query_words) ==
    WordHits(query_words, Lower(Chunks[id].text))
        + WordHits(query_words, Lower(Chunks[id].name))

KeywordScore(id, query_words) ==
    WordHits(query_words, Lower(Chunks[id].text))
        + 2 * WordHits(query_words, Lower(Chunks[id].name))

\* SemanticSearch._keyword_search
KeywordSearchOp(e, query, top_k, filters) ==
    LET all_results == IndexScan(e, KeywordPool, filters)
        query_words == SplitWords(Lower(query.s))
        Matches(row) == KeywordScore(row.id, query_words) > 0
        matching    == SelectSeq(all_results, Matches)
        scored      == [i \in 1..Len(matching) |->
                          LET total == KeywordScore(matching[i].id, query_words)
                          IN  SearchResult(matching[i].id, total * One,
                                           [keyword_matches |-> total])]
    IN  IF HasMalformed(e, matching)
        THEN Raised(<<Call("search", "-", "scan", KeywordPool)>>)
        ELSE Returned(Limit(SortByScoreDesc(scored), top_k),
                      <<Call("search", "-", "scan", KeywordPool)>>)

\* a score taken as it is, whatever the position
Undecayed(results, i) == results[i + 1].score

\* result.score * (1.0 - i / len(results)), i counted from 0
Decayed(results, i) == (results[i + 1].score * (Len(results) - i)) \div Len(results)

\* a hybrid score that leaves the keyword score out
HybridScoreSemanticOnly(semantic_score, keyword_score) == (7 * semantic_score) \div 10

\* hybrid_score = 0.7 * semantic_score + 0.3 * keyword_score
HybridScore(semantic_score, keyword_score) ==
    (7 * semantic_score + 3 * keyword_score) \div 10

\* the combining loops of _hybrid_search
HybridCombine(semantic_results, keyword_results) ==
    LET sem_ids == Ids(semantic_results)
        kw_only == SelectSeq(Ids(keyword_results), LAMBDA id : id \notin SeqToSet(sem_ids))
        order   == sem_ids \o kw_only
        Item(id) ==
            LET si == PositionOf(semantic_results, id, 1)
                ki == PositionOf(keyword_results, id, 1)
                semantic_score == IF si < Len(semantic_results)
                                  THEN Decayed(semantic_results, si) ELSE 0
                keyword_score  == IF ki < Len(keyword_results)
                                  THEN Decayed(keyword_results, ki) ELSE 0
                result == IF si < Len(semantic_results)
                          THEN semantic_results[si + 1] ELSE keyword_results[ki + 1]
            IN  SearchResult(id, HybridScore(semantic_score, keyword_score),
                    Update(result.metadata,
                           [semantic_score |-> semantic_score,
                            keyword_score  |-> keyword_score,
                            search_type    |-> "hybrid"]))
    IN  [i \in 1..Len(order) |-> Item(order[i])]

\* the rest of _hybrid_search, once both searches have answered; a search
\* that raised ends the method there
HybridMerge(sem, kw, top_k) ==
    IF sem.exc THEN sem
    ELSE IF kw.exc THEN Raised(sem.log \o kw.log)
    ELSE Returned(Limit(SortByScoreDesc(HybridCombine(sem.res, kw.res)), top_k),
                  sem.log \o kw.log)

\* SemanticSearch._hybrid_search
HybridSearchOp(e, query, top_k, filters) ==
    HybridMerge(SemanticSearchOp(e, query, top_k * 2, filters, TRUE),
                KeywordSearchOp(e, query, top_k * 2, filters), top_k)

\* the generator held by SemanticSearch, when there is one
HydeGenerator(e) == Generator(e["hyde"] = "enabled", TRUE)

Tag(results, new) ==
    [i \in 1..Len(results) |->
        SearchResult(results[i].id, results[i].score, Update(results[i].metadata, new))]

\* a method's answer, with calls made before it and tags on its results
After(calls, r) == [r EXCEPT !.log = calls \o r.log]

TagAll(r, new) == [r EXCEPT !.res = Tag(r.res, new)]

HydePrelimTopK == 5

ContextTopN == 5

\* SemanticSearch._build_temp_context: the contents of the first five results
BuildTempContext(results) ==
    [i \in 1..Min(ContextTopN, Len(results)) |-> Chunks[results[i].id].text]

\* self.hyde_generator.<method>: the attribute access fails on None
HydeTouch == <<Call("hyde_generator", "hyde", "", 0)>>

\* _hyde_search, step 4: the final results, tagged
HydeFinal(final, v1, v2, top_k, calls) ==
    IF final.exc THEN Raised(calls \o final.log)
    ELSE
    Returned(Limit(Tag(final.res,
                       [search_method  |-> "hyde",
                        hyde_v1_length |-> Len(v1.res.s),
                        hyde_v2_length |-> Len(v2.res.s)]), top_k),
             calls \o final.log)

\* _hyde_search, from the answer of generate_hyde_query_v2 on
HydeAfterV2(e, top_k, filters, v1, initial, v2, calls) ==
    IF Falsy(v2.res)
    THEN Returned(Limit(initial.res, top_k), calls \o v2.log)
    ELSE HydeFinal(SemanticSearchOp(e, v2.res, top_k * 2, filters, FALSE),
                   v1, v2, top_k, calls \o v2.log)

\* _hyde_search, from the preliminary results on
HydeAfterInitial(e, query, top_k, filters, v1, initial, calls) ==
    IF initial.exc THEN Raised(calls \o initial.log)
    ELSE IF initial.res = <<>>
    THEN Returned(<<>>, calls \o initial.log)
    ELSE HydeAfterV2(e, top_k, filters, v1, initial,
                     GenerateHydeQueryV2(HydeGenerator(e), query,
                                         BuildTempContext(initial.res), v1.res,
                                         e["gen2"]),
                     calls \o initial.log)

\* _hyde_search, from the answer of generate_hyde_query on
HydeAfterV1(e, query, top_k, filters, v1, calls) ==
    IF Falsy(v1.res)
    THEN After(calls \o v1.log, SemanticSearchOp(e, query, top_k, filters, TRUE))
    ELSE HydeAfterInitial(e, query, top_k, filters, v1,
                          SemanticSearchOp(e, v1.res, HydePrelimTopK, filters, FALSE),
                          calls \o v1.log)

\* SemanticSearch._hyde_search
HydeSearchOp(e, query, top_k, filters) ==
    IF e["hyde"] = "absent" THEN Raised(HydeTouch)
    ELSE HydeAfterV1(e, query, top_k, filters,
                     GenerateHydeQuery(HydeGenerator(e), query, e["gen1"]), HydeTouch)

\* _hyde_quick_search, from the answer of generate_quick_hyde on
HydeQuickAfter(e, query, top_k, filters, hq, calls) ==
    IF Falsy(hq.res)
    THEN After(calls \o hq.log, SemanticSearchOp(e, query, top_k, filters, TRUE))
    ELSE After(calls \o hq.log,
               TagAll(SemanticSearchOp(e, hq.res, top_k, filters, FALSE),
                      [search_method     |-> "hyde_quick",
                       hyde_query_length |-> Len(hq.res.s)]))

\* SemanticSearch._hyde_quick_search
HydeQuickSearchOp(e, query, top_k, filters) ==
    IF e["hyde"] = "absent" THEN Raised(HydeTouch)
    ELSE HydeQuickAfter(e, query, top_k, filters,
                        GenerateQuickHyde(HydeGenerator(e), query, e["gen1"]), HydeTouch)

RRF_K == 60

\* the weights argument of _reciprocal_rank_fusion: None, or a list of tenths
NoWeights == [none |-> TRUE, w |-> <<>>]

Weights(w) == [none |-> FALSE, w |-> w]

\* the contribution with ranks counted from 0
RRFTermZeroBased(weight, rank) == (weight * (One \div (RRF_K + rank - 1))) \div 10

\* the contribution weight * (1.0 / (k + rank))
RRFTerm(weight, rank) == (weight * (One \div (RRF_K + rank))) \div 10

\* SemanticSearch._reciprocal_rank_fusion
ReciprocalRankFusion(result_lists, weights) ==
    LET w == IF weights.none THEN [i \in 1..Len(result_lists) |-> 10] ELSE weights.w
        n == Min(Len(result_lists), Len(w))
        Seen(i, r) == \/ \E j \in 1..(i - 1) : \E q \in 1..Len(result_lists[j]) :
                              result_lists[j][q].id = result_lists[i][r].id
                      \/ \E q \in 1..(r - 1) : result_lists[i][q].id = result_lists[i][r].id
        First(i) == SelectSeq([r \in 1..Len(result_lists[i]) |->
                                  [list |-> i, rank |-> r]],
                              LAMBDA x : ~Seen(x.list, x.rank))
        RECURSIVE Firsts(_)
        Firsts(i) == IF i > n THEN <<>> ELSE First(i) \o Firsts(i + 1)
        Score(id) == SumSeq([i \in 1..n |->
                        SumSeq([r \in 1..Len(result_lists[i]) |->
                            IF result_lists[i][r].id = id THEN RRFTerm(w[i], r) ELSE 0])])
        Item(x) == LET result == result_lists[x.list][x.rank]
                   IN  SearchResult(result.id, Score(result.id), result.metadata)
        items  == [i \in 1..Len(Firsts(1)) |-> Item(Firsts(1)[i])]
        ranked == SortByScoreDesc(items)
    IN  [i \in 1..Len(ranked) |->
            SearchResult(ranked[i].id, ranked[i].score,
                         Update(ranked[i].metadata, [rrf_score |-> ranked[i].score]))]

\* SemanticSearch._description_search
DescriptionSearchOp(e, query, top_k, filters) ==
    LET agent == <<Call("translation_agent", "trans", "", 0)>>
        translated == IF e["trans"] = "changed" THEN Translation ELSE query
        emb == GenerateEmbedding(e, translated, TRUE)
        metadata == [search_method    |-> "description",
                     original_query   |-> query.s,
                     translated_query |-> IF query.s # translated.s
                                          THEN translated.s ELSE NoneStr]
    IN  IF emb.res = NoVector
        THEN Returned(<<>>, agent \o emb.log)
        ELSE Converted(e,
                       IndexSearchByDescription(e, emb.res, top_k, filters),
                       metadata,
                       agent \o emb.log
                           \o <<Call("search_by_description", "-", "description", top_k)>>)

\* the rest of _hyde_hybrid_search, once both searches have answered
HydeHybridFuse(hyde, desc, top_k) ==
    IF hyde.exc THEN hyde
    ELSE IF desc.exc THEN Raised(hyde.log \o desc.log)
    ELSE Returned(Limit(ReciprocalRankFusion(<<hyde.res, desc.res>>, Weights(<<6, 4>>)),
                        top_k),
                  hyde.log \o desc.log)

\* SemanticSearch._hyde_hybrid_search
HydeHybridSearchOp(e, query, top_k, filters) ==
    HydeHybridFuse(HydeSearchOp(e, query, top_k, filters),
                   DescriptionSearchOp(e, query, top_k, filters), top_k)

\* self.hyde_generator and self.hyde_generator.is_enabled()
HydeCheck == <<Call("is_enabled", "hyde", "", 0)>>

\* a default branch that honours use_hyde the way the semantic branch does
RouteUnknownHonouringHyde(e, query, top_k, filters, use_hyde) ==
    IF use_hyde
    THEN IF e["hyde"] = "enabled"
         THEN After(HydeCheck, HydeQuickSearchOp(e, query, top_k, filters))
         ELSE After(HydeCheck, SemanticSearchOp(e, query, top_k, filters, TRUE))
    ELSE SemanticSearchOp(e, query, top_k, filters, TRUE)

\* the else branch of the routing: use_hyde is not looked at
RouteUnknown(e, query, top_k, filters, use_hyde) ==
    SemanticSearchOp(e, query, top_k, filters, TRUE)

\* the routing of SemanticSearch.search, inside its try block
Route(e, query, top_k, filters, search_type, use_hyde) ==
    CASE search_type = "hyde" ->
             IF e["hyde"] = "enabled"
             THEN After(HydeCheck, HydeQuickSearchOp(e, query, top_k, filters))
             ELSE After(HydeCheck, SemanticSearchOp(e, query, top_k, filters, TRUE))
      [] search_type = "hyde_full" ->
             IF e["hyde"] = "enabled"
             THEN After(HydeCheck, HydeSearchOp(e, query, top_k, filters))
             ELSE After(HydeCheck, SemanticSearchOp(e, query, top_k, filters, TRUE))
      [] search_type = "semantic" ->
             IF use_hyde
             THEN IF e["hyde"] = "enabled"
                  THEN After(HydeCheck, HydeQuickSearchOp(e, query, top_k, filters))
                  ELSE After(HydeCheck, SemanticSearchOp(e, query, top_k, filters, TRUE))
             ELSE SemanticSearchOp(e, query, top_k, filters, TRUE)
      [] search_type = "hybrid" ->
             IF use_hyde
             THEN IF e["hyde"] = "enabled"
                  THEN After(HydeCheck, HydeHybridSearchOp(e, query, top_k, filters))
                  ELSE After(HydeCheck, HybridSearchOp(e, query, top_k, filters))
             ELSE HybridSearchOp(e, query, top_k, filters)
      [] search_type = "keyword" -> KeywordSearchOp(e, query, top_k, filters)
      [] search_type = "description" -> DescriptionSearchOp(e, query, top_k, filters)
      [] OTHER -> RouteUnknown(e, query, top_k, filters, use_hyde)

\* except Exception: log the error, return []
CatchAll(r) == IF r.exc THEN Returned(<<>>, r.log) ELSE r

\* SemanticSearch.search
SearchOp(e, query, top_k, filters, search_type, use_hyde) ==
    CatchAll(Route(e, query, top_k, filters, search_type, use_hyde))

DescriptionTopK == 10

JudgeCall == <<Call("relevance_judge", "judge", "", 0)>>

\* the except clause of step 3, reached when _hyde_search raised inside the
\* try block: it calls _hyde_search again
FallbackExcept(hyde) == IF hyde.exc THEN After(hyde.log, hyde) ELSE hyde

\* a judgment step that takes a failing judge for a relevant verdict
FallbackJudgedTrustingFailure(e, reranked, hyde, top_k, calls) ==
    IF e["judge"] \in {"relevant", "error"}
    THEN Returned(Tag(Limit(reranked, top_k),
                      [search_method      |-> "description_fallback",
                       relevance_judgment |-> "relevant"]),
                  calls)
    ELSE After(calls, FallbackExcept(hyde))

\* step 3 of search_with_description_fallback: the relevance judgment
FallbackJudged(e, reranked, hyde, top_k, calls) ==
    CASE e["judge"] = "error" -> After(calls, hyde)
      [] e["judge"] = "unavailable" -> After(calls, FallbackExcept(hyde))
      [] e["judge"] = "relevant" ->
             Returned(Tag(Limit(reranked, top_k),
                          [search_method      |-> "description_fallback",
                           relevance_judgment |-> "relevant"]),
                      calls)
      [] e["judge"] = "not_relevant" ->
             After(calls,
                   FallbackExcept(TagAll(hyde,
                       [search_method      |-> "description_fallback_hyde",
                        relevance_judgment |-> "not_relevant"])))

\* search_with_description_fallback, from the description results on; hyde is
\* what _hyde_search(query, codebase_name, top_k, filters) does when called
FallbackAfterDescription(e, query, top_k, description_top_k, desc, hyde) ==
    IF desc.exc THEN desc
    ELSE IF desc.res = <<>> THEN After(desc.log, hyde)
    ELSE FallbackJudged(e, Rerank(desc.res, query.s, <<description_top_k>>), hyde,
                        top_k, desc.log \o JudgeCall)

\* SemanticSearch.search_with_description_fallback
FallbackOp(e, query, top_k, description_top_k, filters) ==
    FallbackAfterDescription(e, query, top_k, description_top_k,
                             DescriptionSearchOp(e, query, description_top_k, filters),
                             HydeSearchOp(e, query, top_k, filters))

(***************************************************************************)
(* indexer.py: CodebaseIndexer.search                                      *)
(***************************************************************************)
DefaultTopK == 5

\* top_k or self.config.default_top_k; top_k is <<>> for None, else <<k>>
EffectiveTopK(top_k) == IF top_k = <<>> \/ top_k[1] = 0 THEN DefaultTopK ELSE top_k[1]

\* the stages in another order: the filters see the scores of the base search
RerankStagesFilterFirst(results, query, top_k) ==
    Limit(Rerank(DiversityFilter(ConfidenceFilter(results, ConfidenceMinScore),
                                 DiversityMaxPerFile),
                 query.s, <<top_k * 2>>), top_k)

\* the post-processing of CodebaseIndexer.search when reranking is requested
RerankStages(results, query, top_k) ==
    LET reranked  == Rerank(results, query.s, <<top_k * 2>>)
        confident == ConfidenceFilter(reranked, ConfidenceMinScore)
        diverse   == DiversityFilter(confident, DiversityMaxPerFile)
    IN  Limit(diverse, top_k)

StageCalls ==
    <<Call("rerank", "-", "", 0), Call("confidence_filter", "-", "", 0),
      Call("diversity_filter", "-", "", 0), Call("truncate", "-", "", 0)>>

\* if use_reranking and results: the four stages
PostProcess(found, query, top_k, use_reranking) ==
    IF use_reranking /\ found.res # <<>>
    THEN Returned(RerankStages(found.res, query, top_k), found.log \o StageCalls)
    ELSE found

ContextCall == <<Call("build_context_from_results", "context", "", 0)>>

\* if include_context and results: the context manager formats the results
BuildContext(e, found) ==
    IF found.res = <<>> THEN found
    ELSE IF e["context"] = "raise" THEN Raised(found.log \o ContextCall)
    ELSE Returned(found.res, found.log \o ContextCall)

\* CodebaseIndexer.search with include_context left at its default; an answer
\* that raised is one the except clause turns into the failure dictionary
IndexerSearchOp(e, query, top_k, search_type, filters, use_hyde, use_reranking) ==
    BuildContext(e,
        PostProcess(SearchOp(e, query, EffectiveTopK(top_k), filters, search_type, use_hyde),
                    query, EffectiveTopK(top_k), use_reranking))

(***************************************************************************)
(* Requests                                                                *)
(***************************************************************************)
MaxTopK == 3

EmptyQuery == Text("q", <<>>)

ParseUser == Text("q", <<"p","a","r","s","e"," ","u","s","e","r">>)

Queries == {EmptyQuery, ParseUser}

\* "fuzzy" stands for every search_type the router does not recognize
SearchTypes == {"semantic", "hybrid", "keyword", "description", "hyde", "hyde_full", "fuzzy"}

FilterChoices == {NoFilters, FunctionFilter}

Request(entry, query, top_k, search_type, filters, use_hyde, use_reranking) ==
    [entry |-> entry, query |-> query, top_k |-> top_k, search_type |-> search_type,
     filters |-> filters, use_hyde |-> use_hyde, use_reranking |-> use_reranking]

\* the class names find_class_methods is asked about: a class with a method
\* in the index, and one without
ClassNames == {<<"U","s","e","r","P","a","r","s","e","r">>, <<"L","o","a","d","e","r">>}

\* filters = {'parent_name': class_name}
ClassFilter(class_name) == [NoFilters EXCEPT !.parent_name = class_name]

\* SemanticSearch.find_class_methods: self.search("", codebase_name, top_k,
\* filters), the search type and use_hyde left at the defaults of search
FindClassMethodsCall(class_name, top_k) ==
    Request("find_class_methods", EmptyQuery, <<top_k>>, "semantic",
            ClassFilter(class_name), FALSE, FALSE)

NoRequest == Request("none", EmptyQuery, <<>>, "semantic", NoFilters, FALSE, FALSE)

\* the call a request makes, under collaborator behaviour e
Run(e, r) ==
    CASE r.entry \in {"search", "find_class_methods"} ->
             SearchOp(e, r.query, r.top_k[1], r.filters, r.search_type, r.use_hyde)
      [] r.entry = "fallback" ->
             FallbackOp(e, r.query, r.top_k[1], DescriptionTopK, r.filters)
      [] r.entry = "indexer" ->
             IndexerSearchOp(e, r.query, r.top_k, r.search_type, r.filters,
                             r.use_hyde, r.use_reranking)

\* the positions in a call log of the behaviours consulted and not yet fixed
OpenCalls(calls, fixed) ==
    {i \in 1..Len(calls) : calls[i].key # "-" /\ calls[i].key \notin fixed}

FirstOpen(calls, fixed) ==
    calls[CHOOSE i \in OpenCalls(calls, fixed) : \A j \in OpenCalls(calls, fixed) : i <= j].key

\* the collaborator behaviours a request can meet, each with what the call
\* returns under it: each behaviour the call consults ranges over its values,
\* in the order the call consults them; the behaviours it never consults stay
\* as in DefaultEnv
RECURSIVE Behaviours(_, _, _)
BehavioursAt(r, e, fixed, key) ==
    UNION {Behaviours(r, [e EXCEPT ![key] = v], fixed \cup {key}) : v \in EnvValues(key)}

BehavioursAfter(r, e, fixed, o) ==
    IF OpenCalls(o.log, fixed) = {} THEN {[env |-> e, o |-> o]}
    ELSE BehavioursAt(r, e, fixed, FirstOpen(o.log, fixed))

Behaviours(r, e, fixed) == BehavioursAfter(r, e, fixed, Run(e, r))

\* what the caller gets: a list, a response or a failure dictionary, or an
\* exception
Outcome(r, o) ==
    [kind    |-> CASE r.entry = "indexer" /\ o.exc  -> "failure"
                   [] r.entry = "indexer" /\ ~o.exc -> "response"
                   [] r.entry # "indexer" /\ o.exc  -> "raised"
                   [] OTHER                         -> "list",
     results |-> o.res]

NoOutcome == [kind |-> "none", results |-> <<>>]

\* the arguments and the answer of a call on the generator, before any call
NoGenArgs == [fn |-> "none", query |-> EmptyQuery, context |-> <<>>,
              hyde_query_v1 |-> NoText, b |-> "none"]

NoGenOut == [res |-> NoText, log |-> <<>>]

\* the contexts and first-stage texts generate_hyde_query_v2 is called with
GenContexts == {<<>>, BuildTempContext(<<SearchResult(1, One, <<>>)>>)}

GenV1Texts == {HydeCode1, ParseUser, EmptyQuery}

Answer(r, e, o) ==
    /\ pc' = "done"
    /\ req' = r
    /\ env' = e
    /\ out' = Outcome(r, o)
    /\ log' = o.log
    /\ UNCHANGED <<gen, genArgs, genOut, rrfLists, rrfWeights, rrfOut, fnArgs, fnOut>>
    /\ UNCHANGED moduleVars

Serve(r) == \E b \in Behaviours(r, DefaultEnv, {}) : Answer(r, b.env, b.o)

\* the same on an index in state i, its answers holding the malformed record
\* of chunk b if any
ServeOn(r, i, b) ==
    \E a \in Behaviours(r, [DefaultEnv EXCEPT !["index"] = i, !["bad"] = b], {}) :
        Answer(r, a.env, a.o)

\* a caller invokes SemanticSearch.search
SemanticSearchSearch ==
    /\ pc = "idle"
    /\ \E q \in Queries, k \in 0..MaxTopK, t \in SearchTypes, f \in FilterChoices,
          h \in BOOLEAN :
           Serve(Request("search", q, <<k>>, t, f, h, FALSE))

\* a caller invokes SemanticSearch.search_with_description_fallback
SearchWithDescriptionFallback ==
    /\ pc = "idle"
    /\ \E q \in Queries, k \in 0..MaxTopK, f \in FilterChoices :
           Serve(Request("fallback", q, <<k>>, "description", f, FALSE, FALSE))

\* a caller invokes CodebaseIndexer.search, with or without a top_k
CodebaseIndexerSearch ==
    /\ pc = "idle"
    /\ \E q \in Queries, k \in {<<>>} \cup {<<n>> : n \in 0..MaxTopK},
          t \in SearchTypes, f \in FilterChoices, h \in BOOLEAN, rr \in BOOLEAN :
           Serve(Request("indexer", q, k, t, f, h, rr))

\* a caller invokes SemanticSearch.find_class_methods
FindClassMethods ==
    /\ pc = "idle"
    /\ \E c \in ClassNames, k \in 0..MaxTopK :
           Serve(FindClassMethodsCall(c, k))

\* a text of the translation tools: its script and which text of that script
\* it is; "blank" is the empty string or white space only
TextOf(lang, n) == [lang |-> lang, n |-> n]

NoTranslation == TextOf("none", 0)

\* the arguments and the answer of a call on a translation tool, before any
\* call; before is the cache the call found
NoToolArgs == [fn |-> "none", text |-> NoTranslation, translated |-> NoTranslation,
               before |-> <<>>]

NoToolOut == [status |-> "none"]

\* _indexer = None: no instance is current, none was created
NoIndexer == [current |-> 0, created |-> 0]

\* EmbeddingGenerator.cache_dir before any embedding was saved: the file of
\* each text and intent is "absent" (later "partial" while it is written,
\* then "complete")
NoCacheFiles == [k \in EmbedKeys |-> "absent"]

Threads == {1, 2}

\* what a request on a thread has returned, before it returns
NoResult == [status |-> "none"]

\* a thread with no request: pc the step the request is at, op and text the
\* call and its argument, keys and pos the local keys_to_remove and the
\* position of the deletion loop in it, result what the call returned, alone
\* what it returns when no other request runs
NoThread ==
    [pc |-> "idle", op |-> "none", text |-> NoTranslation, keys |-> <<>>, pos |-> 0,
     result |-> NoResult, alone |-> NoResult]

NoThreads == [t \in Threads |-> NoThread]

\* the arguments of a call on the reranker or on a filter, before any call
NoFnArgs ==
    [fn |-> "none", results |-> <<>>, query |-> <<>>, top_k |-> <<>>, min_score |-> 0,
     max_per_file |-> 0, name |-> <<>>]

\* the caller has the answer; nothing of the call is kept
Return ==
    /\ pc = "done"
    /\ pc' = "idle"
    /\ req' = NoRequest
    /\ env' = DefaultEnv
    /\ out' = NoOutcome
    /\ log' = <<>>
    /\ genArgs' = NoGenArgs
    /\ genOut' = NoGenOut
    /\ rrfLists' = <<>>
    /\ rrfWeights' = NoWeights
    /\ rrfOut' = <<>>
    /\ fnArgs' = NoFnArgs
    /\ fnOut' = <<>>
    /\ toolArgs' = NoToolArgs
    /\ toolOut' = NoToolOut
    /\ UNCHANGED <<gen, translation_cache, indexer, cache_dir, threads>>

Idle ==
    /\ pc = "idle"
    /\ req = NoRequest
    /\ env = DefaultEnv
    /\ out = NoOutcome
    /\ log = <<>>
    /\ genArgs = NoGenArgs
    /\ genOut = NoGenOut
    /\ rrfLists = <<>>
    /\ rrfWeights = NoWeights
    /\ rrfOut = <<>>
    /\ fnArgs = NoFnArgs
    /\ fnOut = <<>>
    /\ toolArgs = NoToolArgs
    /\ toolOut = NoToolOut

\* the modules as they are once imported: an empty translation cache, no
\* global indexer, an empty embedding cache directory, and no request under
\* way on a thread
Imported ==
    /\ translation_cache = <<>>
    /\ indexer = NoIndexer
    /\ cache_dir = NoCacheFiles
    /\ threads = NoThreads

Init == Idle /\ Imported /\ gen = Generator(TRUE, TRUE)

Next ==
    \/ SemanticSearchSearch
    \/ SearchWithDescriptionFallback
    \/ CodebaseIndexerSearch
    \/ FindClassMethods
    \/ Return

Spec == Init /\ [][Next]_vars

(***************************************************************************)
(* The HyDE generator on its own: a generator in any of its states is      *)
(* called with any arguments, and the backend answers in any way           *)
(***************************************************************************)
InitHyde == Idle /\ Imported /\ gen \in {Generator(en, cl) : en \in BOOLEAN, cl \in BOOLEAN}

GenCall(fn, query, context, hyde_query_v1, b, o) ==
    /\ pc' = "done"
    /\ genArgs' = [fn |-> fn, query |-> query, context |-> context,
                   hyde_query_v1 |-> hyde_query_v1, b |-> b]
    /\ genOut' = [res |-> o.res, log |-> o.log]
    /\ UNCHANGED <<req, env, out, log, gen, rrfLists, rrfWeights, rrfOut, fnArgs, fnOut>>
    /\ UNCHANGED moduleVars

GenerateHydeQueryCall ==
    /\ pc = "idle"
    /\ \E q \in Queries, b \in EnvValues("gen1") :
           GenCall("generate_hyde_query", q, <<>>, NoText, b, GenerateHydeQuery(gen, q, b))

GenerateHydeQueryV2Call ==
    /\ pc = "idle"
    /\ \E q \in Queries, c \in GenContexts, v1 \in GenV1Texts, b \in EnvValues("gen2") :
           GenCall("generate_hyde_query_v2", q, c, v1, b,
                   GenerateHydeQueryV2(gen, q, c, v1, b))

GenerateQuickHydeCall ==
    /\ pc = "idle"
    /\ \E q \in Queries, b \in EnvValues("gen1") :
           GenCall("generate_quick_hyde", q, <<>>, NoText, b, GenerateQuickHyde(gen, q, b))

NextHyde ==
    \/ GenerateHydeQueryCall
    \/ GenerateHydeQueryV2Call
    \/ GenerateQuickHydeCall
    \/ Return

SpecHyde == InitHyde /\ [][NextHyde]_vars

(***************************************************************************)
(* Reciprocal rank fusion on its own: any ranked lists, each with distinct *)
(* ids, and per-list weights or none                                       *)
(***************************************************************************)
MaxListLen == 2

RRFIds == {1, 2, 3}

\* the rankings: the sequences without repetition of at most MaxListLen ids
Rankings ==
    UNION {{r \in [1..n -> RRFIds] : \A i, j \in 1..n : r[i] = r[j] => i = j} :
               n \in 0..MaxListLen}

\* a ranked list: its incoming scores fall from 0.9 by tenths, or from 0.09
\* by hundredths
RankedList(ranking, scale) ==
    [i \in 1..Len(ranking) |->
        SearchResult(ranking[i], Tenths(10 - i) \div scale, [source |-> scale])]

RankedLists == {RankedList(r, sc) : r \in Rankings, sc \in {1, 10}}

RRFInputs ==
    {<<>>} \cup {<<a>> : a \in RankedLists} \cup {<<a, b>> : a, b \in RankedLists}

WeightChoices(n) == {NoWeights} \cup {Weights(w) : w \in [1..n -> {4, 6, 10}]}

ReciprocalRankFusionCall ==
    /\ pc = "idle"
    /\ \E result_lists \in RRFInputs :
         \E weights \in WeightChoices(Len(result_lists)) :
            /\ pc' = "done"
            /\ rrfLists' = result_lists
            /\ rrfWeights' = weights
            /\ rrfOut' = ReciprocalRankFusion(result_lists, weights)
    /\ UNCHANGED <<req, env, out, log, gen, genArgs, genOut, fnArgs, fnOut>>
    /\ UNCHANGED moduleVars

NextRRF ==
    \/ ReciprocalRankFusionCall
    \/ Return

SpecRRF == Init /\ [][NextRRF]_vars

(***************************************************************************)
(* The searches on a codebase without chunks, and on an index that answers *)
(* with a malformed record                                                 *)
(***************************************************************************)
\* SemanticSearch.search on a codebase with zero indexed chunks
SearchEmptyCodebase ==
    /\ pc = "idle"
    /\ \E q \in Queries, k \in 0..MaxTopK, t \in SearchTypes, f \in FilterChoices,
          h \in BOOLEAN :
           ServeOn(Request("search", q, <<k>>, t, f, h, FALSE), "empty", NoRow)

\* CodebaseIndexer.search on a codebase with zero indexed chunks
IndexerSearchEmptyCodebase ==
    /\ pc = "idle"
    /\ \E q \in Queries, k \in {<<>>} \cup {<<n>> : n \in 0..MaxTopK},
          t \in SearchTypes, f \in FilterChoices, h \in BOOLEAN, rr \in BOOLEAN :
           ServeOn(Request("indexer", q, k, t, f, h, rr), "empty", NoRow)

\* SemanticSearch.search on an index that returns one record without its
\* description field
SearchMalformedRecord ==
    /\ pc = "idle"
    /\ \E q \in Queries, k \in 0..MaxTopK, t \in SearchTypes, f \in FilterChoices,
          h \in BOOLEAN, b \in ChunkIds :
           ServeOn(Request("search", q, <<k>>, t, f, h, FALSE), "rows", b)

NextIndex ==
    \/ SearchEmptyCodebase
    \/ IndexerSearchEmptyCodebase
    \/ SearchMalformedRecord
    \/ Return

SpecIndex == Init /\ [][NextIndex]_vars

(***************************************************************************)
(* The searches on the second codebase: a function authenticate_user and   *)
(* an unrelated function parse_json, at every distance the index may       *)
(* report for them                                                         *)
(***************************************************************************)
AuthenticateUserQuery ==
    Text("q", <<"a","u","t","h","e","n","t","i","c","a","t","e"," ","u","s","e","r">>)

\* the call on a given index
ServeIn(r, e0) == \E b \in Behaviours(r, e0, {}) : Answer(r, b.env, b.o)

\* the second codebase with the two chunks at distances da and dj
AuthIndex(da, dj, first) ==
    [DefaultEnv EXCEPT !["index"] = "auth", !["d_auth"] = da, !["d_json"] = dj,
                       !["tie"] = first]

\* CodebaseIndexer.search on the second codebase
IndexerSearchAuthCodebase ==
    /\ pc = "idle"
    /\ \E k \in {<<>>} \cup {<<n>> : n \in 0..MaxTopK}, t \in SearchTypes,
          rr \in BOOLEAN, da \in Distances, dj \in Distances,
          first \in ChunksOf("auth") :
           ServeIn(Request("indexer", AuthenticateUserQuery, k, t, NoFilters, FALSE, rr),
                   AuthIndex(da, dj, first))

NextAuth ==
    \/ IndexerSearchAuthCodebase
    \/ Return

SpecAuth == Init /\ [][NextAuth]_vars

(***************************************************************************)
(* The reranker and the filters on their own: any list of results the      *)
(* searches can return (distinct chunks, any scores), any query            *)
(***************************************************************************)
MaxResults == 4

\* the scores a candidate comes with
CandidateScores == {Tenths(1), Tenths(2), Tenths(3), Tenths(5), Tenths(9)}

\* the lists of at most MaxResults results on distinct chunks
ChunkRankings ==
    UNION {{r \in [1..n -> ChunkIds] : \A i, j \in 1..n : r[i] = r[j] => i = j} :
               n \in 0..Min(MaxResults, Cardinality(ChunkIds))}

Candidates(ranking, scores) ==
    [i \in 1..Len(ranking) |-> SearchResult(ranking[i], scores[i], <<>>)]

\* the candidates in table order with any scores, and in any order with
\* scores falling from 0.9 or all 0.5
ScoredLists ==
    UNION {{Candidates([i \in 1..n |-> i], sc) : sc \in [1..n -> CandidateScores]} :
               n \in 0..MaxResults}

OrderedLists ==
    {Candidates(r, [i \in 1..Len(r) |-> Tenths(10 - i)]) : r \in ChunkRankings}
        \cup {Candidates(r, [i \in 1..Len(r) |-> Tenths(5)]) : r \in ChunkRankings}

UserParserClass ==
    <<"u","s","e","r"," ","p","a","r","s","e","r"," ","c","l","a","s","s">>

RerankQueries == {ParseUser.s, UserParserClass}

FnCall(fn, results, query, top_k, min_score, max_per_file, name, o) ==
    /\ pc' = "done"
    /\ fnArgs' = [fn |-> fn, results |-> results, query |-> query, top_k |-> top_k,
                  min_score |-> min_score, max_per_file |-> max_per_file, name |-> name]
    /\ fnOut' = o
    /\ UNCHANGED <<req, env, out, log, gen, genArgs, genOut, rrfLists, rrfWeights, rrfOut>>
    /\ UNCHANGED moduleVars

\* a caller invokes CodeReranker.rerank
RerankCall ==
    /\ pc = "idle"
    /\ \E results \in OrderedLists, query \in RerankQueries, top_k \in {<<>>, <<0>>, <<2>>} :
           FnCall("rerank", results, query, top_k, 0, 0, <<>>,
                  Rerank(results, query, top_k))

\* a caller invokes ConfidenceFilter(min_score).filter
ConfidenceFilterCall ==
    /\ pc = "idle"
    /\ \E results \in ScoredLists, min_score \in {Tenths(3), Tenths(5)} :
           FnCall("confidence_filter", results, <<>>, <<>>, min_score, 0, <<>>,
                  ConfidenceFilter(results, min_score))

\* a caller invokes DiversityFilter(max_per_file).filter
DiversityFilterCall ==
    /\ pc = "idle"
    /\ \E results \in OrderedLists, max_per_file \in 1..DiversityMaxPerFile :
           FnCall("diversity_filter", results, <<>>, <<>>, 0, max_per_file, <<>>,
                  DiversityFilter(results, max_per_file))

ParseUserData == <<"p","a","r","s","e"," ","u","s","e","r"," ","d","a","t","a">>

NameQueries == RerankQueries \cup {ParseUserData, <<"p","a","r","s","e">>, <<>>}

\* the names of the chunks, and a name of three parts
Names ==
    {Chunks[i].name : i \in ChunkIds}
        \cup {<<"p","a","r","s","e","_","u","s","e","r","_","d","a","t","a">>,
              <<"p","a","r","s","e">>}

\* the reranker scores a name against the keywords of a query
ComputeNameMatchScoreCall ==
    /\ pc = "idle"
    /\ \E name \in Names, query \in NameQueries :
           FnCall("_compute_name_match_score", <<>>, query, <<>>, 0, 0, name,
                  NameMatchScore(name, ExtractKeywords(query)))

\* the chunk types the parser gives, and one the preferences do not list
ChunkTypes == {"function", "class", "method", "text", "variable"}

\* queries with and without a word that suggests a chunk type
TypeQueries ==
    {ParseUser.s, UserParserClass,
     <<"f","i","n","d"," ","m","e","t","h","o","d">>,
     <<"M","e","m","b","e","r"," ","F","u","n","c","t","i","o","n"," ","o","f"," ","u","s","e","r">>,
     <<"g","e","t"," ","f","u","n","c">>}

\* the reranker scores a chunk type against a query; the chunk type is kept
\* in the name argument, as a one-element sequence
ComputeChunkTypeScoreCall ==
    /\ pc = "idle"
    /\ \E chunk_type \in ChunkTypes, query \in TypeQueries :
           FnCall("_compute_chunk_type_score", <<>>, query, <<>>, 0, 0, <<chunk_type>>,
                  ChunkTypeScore(chunk_type, query))

NextRerank ==
    \/ ComputeNameMatchScoreCall
    \/ ComputeChunkTypeScoreCall
    \/ RerankCall
    \/ ConfidenceFilterCall
    \/ DiversityFilterCall
    \/ Return

SpecRerank == Init /\ [][NextRerank]_vars

(***************************************************************************)
(* translation_agent/tools.py: the translation cache, a dict in insertion  *)
(* order, here the sequence of its entries                                 *)
(***************************************************************************)
CacheLimit == 1000

PruneCount == 500

\* text in _translation_cache
Cached(cache, text) == \E i \in 1..Len(cache) : cache[i].original = text

\* _translation_cache[text]
CachedTranslation(cache, text) ==
    cache[CHOOSE i \in 1..Len(cache) : cache[i].original = text].translated

\* _translation_cache[original] = translated: a key the dict holds keeps its
\* place, a new key goes to the end
Store(cache, original, translated) ==
    IF Cached(cache, original)
    THEN [i \in 1..Len(cache) |->
             IF cache[i].original = original
             THEN [original |-> original, translated |-> translated]
             ELSE cache[i]]
    ELSE Append(cache, [original |-> original, translated |-> translated])

\* a pruning that removes the newest entries
PruneNewest(cache) ==
    IF Len(cache) > CacheLimit THEN SubSeq(cache, 1, Len(cache) - PruneCount) ELSE cache

\* if len(_translation_cache) > 1000: delete list(_translation_cache.keys())[:500]
Prune(cache) ==
    IF Len(cache) > CacheLimit THEN SubSeq(cache, PruneCount + 1, Len(cache)) ELSE cache

\* cache_translation: the cache it leaves
CacheTranslation(cache, original, translated) == Prune(Store(cache, original, translated))

\* translate_to_english
TranslateToEnglish(cache, text) ==
    IF text.lang = "blank"
    THEN [status |-> "answered", original_text |-> text, translated_text |-> text,
          language_detected |-> "empty", translation_needed |-> FALSE, cached |-> FALSE]
    ELSE IF Cached(cache, text)
    THEN [status |-> "answered", original_text |-> text,
          translated_text |-> CachedTranslation(cache, text),
          language_detected |-> "korean", translation_needed |-> TRUE, cached |-> TRUE]
    ELSE IF text.lang # "korean"
    THEN [status |-> "answered", original_text |-> text, translated_text |-> text,
          language_detected |-> "english", translation_needed |-> FALSE, cached |-> FALSE]
    ELSE [status |-> "answered", original_text |-> text, translated_text |-> NoTranslation,
          language_detected |-> "korean", translation_needed |-> TRUE, cached |-> FALSE]

\* how many entries beyond the limit, and how many from the empty cache, the
\* runs insert
MaxExtra == 2

MaxSmall == 2

\* a cache after n insertions of n Korean texts
Filled(n) ==
    [i \in 1..n |-> [original |-> TextOf("korean", i), translated |-> TextOf("english", 1)]]

\* the Korean text no call has used yet
FreshText(cache) ==
    LET used == {cache[i].original.n : i \in 1..Len(cache)}
    IN  TextOf("korean", 1 + (CHOOSE m \in used \cup {0} : \A o \in used : o <= m))

\* the texts a call is made with: the oldest and the newest cached original,
\* one evicted or never cached, a text not used yet, a blank and an English one
ToolTexts(cache) ==
    {TextOf("blank", 0), TextOf("english", 1), TextOf("korean", 1), FreshText(cache)}
        \cup (IF cache = <<>> THEN {} ELSE {cache[1].original, cache[Len(cache)].original})

\* the insertions the runs make: near the empty cache and near the limit
MayInsert(cache, text) ==
    \/ Cached(cache, text)
    \/ Len(cache) < MaxSmall
    \/ /\ Len(cache) >= CacheLimit - 1
       /\ FreshText(cache).n <= CacheLimit + MaxExtra

ToolCall(fn, text, translated, o) ==
    /\ pc' = "done"
    /\ toolArgs' = [fn |-> fn, text |-> text, translated |-> translated,
                    before |-> translation_cache]
    /\ toolOut' = o
    /\ UNCHANGED <<req, env, out, log, gen, genArgs, genOut, rrfLists, rrfWeights, rrfOut,
                   fnArgs, fnOut, indexer, cache_dir, threads>>

\* the agent calls cache_translation
CacheTranslationCall ==
    /\ pc = "idle"
    /\ \E original \in ToolTexts(translation_cache), k \in {1, 2} :
          /\ MayInsert(translation_cache, original)
          /\ translation_cache' =
                 CacheTranslation(translation_cache, original, TextOf("english", k))
          /\ ToolCall("cache_translation", original, TextOf("english", k),
                      [status |-> "cached", cache_size |-> Len(translation_cache')])

\* the agent calls clear_translation_cache
ClearTranslationCacheCall ==
    /\ pc = "idle"
    /\ translation_cache' = <<>>
    /\ ToolCall("clear_translation_cache", NoTranslation, NoTranslation,
                [status |-> "cleared", previous_size |-> Len(translation_cache),
                 current_size |-> 0])

\* the agent calls translate_to_english
TranslateToEnglishCall ==
    /\ pc = "idle"
    /\ \E text \in ToolTexts(translation_cache) :
          ToolCall("translate_to_english", text, NoTranslation,
                   TranslateToEnglish(translation_cache, text))
    /\ UNCHANGED translation_cache

\* the process has served translations before: the cache is empty, one short
\* of the limit, or at the limit
InitCache ==
    /\ Idle
    /\ gen = Generator(TRUE, TRUE)
    /\ translation_cache \in {Filled(0), Filled(CacheLimit - 1), Filled(CacheLimit)}
    /\ indexer = NoIndexer
    /\ cache_dir = NoCacheFiles
    /\ threads = NoThreads

NextCache ==
    \/ CacheTranslationCall
    \/ ClearTranslationCacheCall
    \/ TranslateToEnglishCall
    \/ Return

SpecCache == InitCache /\ [][NextCache]_vars

(***************************************************************************)
(* Two requests on two threads.  Each request is one call on the           *)
(* module-level state: get_indexer, cache_translation, translate_to_english *)
(* or generate_embedding.  A step is what a thread does between two points *)
(* where the interpreter may switch to the other thread                    *)
(***************************************************************************)
\* how many iterations of the deletion loop of cache_translation a thread
\* runs before the other thread may run
DeleteBatch == 250

sequentialVars ==
    <<pc, req, env, out, log, gen, genArgs, genOut, rrfLists, rrfWeights, rrfOut,
      fnArgs, fnOut, toolArgs, toolOut>>

\* _translation_cache.keys(), as a set
Originals(cache) == {cache[i].original : i \in 1..Len(cache)}

\* list(_translation_cache.keys())[:500]
KeysToRemove(cache) == [i \in 1..Min(PruneCount, Len(cache)) |-> cache[i].original]

\* the iterations from..to of `for key in keys_to_remove: del ...[key]`: the
\* first of them whose key the dict no longer holds, 0 when it holds all
FirstMissing(keys, from, to, held) ==
    IF \A j \in from..to : keys[j] \in held THEN 0
    ELSE CHOOSE j \in from..to :
             keys[j] \notin held /\ \A i \in from..(j - 1) : keys[i] \in held

\* the dict after del _translation_cache[key] for every key in gone
Without(cache, gone) == SelectSeq(cache, LAMBDA entry : entry.original \notin gone)

\* the exception a thread ends with
KeyError == [status |-> "KeyError"]

\* the vector the embedding backend gives the query of the requests
QueryVector == Embedding["q_query"]

\* what a call returns when it runs alone on the module-level state
AloneResult(op, text, cache) ==
    CASE op = "get_indexer" -> [status |-> "indexer", instance |-> 1]
      [] op = "cache_translation" ->
             [status |-> "cached",
              cache_size |-> Len(CacheTranslation(cache, text, TextOf("english", 1)))]
      [] op = "translate_to_english" -> TranslateToEnglish(cache, text)
      [] op = "generate_embedding" -> [status |-> "embedding", vector |-> QueryVector]

\* the calls of the two requests: cache_translation inserts a text not cached
\* yet, translate_to_english asks for the oldest cached text or for that new
\* text
ConcurrentCalls(cache) ==
    {[op |-> "get_indexer", text |-> NoTranslation],
     [op |-> "generate_embedding", text |-> NoTranslation],
     [op |-> "cache_translation", text |-> FreshText(cache)],
     [op |-> "translate_to_english", text |-> FreshText(cache)],
     [op |-> "translate_to_english", text |-> cache[1].original]}

Started(c, cache) ==
    [NoThread EXCEPT !.pc = "start", !.op = c.op, !.text = c.text,
                     !.alone = AloneResult(c.op, c.text, cache)]

\* thread t is at step p of a call of op
At(t, op, p) == threads[t].op = op /\ threads[t].pc = p

\* thread t moves on as th; ends with result r
Moves(t, th) == threads' = [threads EXCEPT ![t] = th]

Ends(t, r) == Moves(t, [threads[t] EXCEPT !.pc = "done", !.result = r])

\* get_indexer: if _indexer is None
GetIndexerTest(t) ==
    /\ At(t, "get_indexer", "start")
    /\ Moves(t, [threads[t] EXCEPT
                    !.pc = IF indexer.current = 0 THEN "create" ELSE "return"])
    /\ UNCHANGED <<sequentialVars, translation_cache, indexer, cache_dir>>

\* get_indexer: _indexer = CodebaseIndexer()
GetIndexerCreate(t) ==
    /\ At(t, "get_indexer", "create")
    /\ indexer' = [current |-> indexer.created + 1, created |-> indexer.created + 1]
    /\ Moves(t, [threads[t] EXCEPT !.pc = "return"])
    /\ UNCHANGED <<sequentialVars, translation_cache, cache_dir>>

\* get_indexer: return _indexer
GetIndexerReturn(t) ==
    /\ At(t, "get_indexer", "return")
    /\ Ends(t, [status |-> "indexer", instance |-> indexer.current])
    /\ UNCHANGED <<sequentialVars, translation_cache, indexer, cache_dir>>

\* cache_translation: _translation_cache[original] = translated
CacheStore(t) ==
    /\ At(t, "cache_translation", "start")
    /\ translation_cache' = Store(translation_cache, threads[t].text, TextOf("english", 1))
    /\ Moves(t, [threads[t] EXCEPT !.pc = "size"])
    /\ UNCHANGED <<sequentialVars, indexer, cache_dir>>

\* cache_translation: if len(_translation_cache) > 1000: keys_to_remove = ...
CacheSizeTest(t) ==
    /\ At(t, "cache_translation", "size")
    /\ Moves(t, IF Len(translation_cache) > CacheLimit
                THEN [threads[t] EXCEPT !.pc = "delete",
                                        !.keys = KeysToRemove(translation_cache)]
                ELSE [threads[t] EXCEPT !.pc = "return"])
    /\ UNCHANGED <<sequentialVars, translation_cache, indexer, cache_dir>>

\* the thread after the iterations up to position to of its deletion loop,
\* miss the first of them that found its key gone
AfterDeletions(th, to, miss) ==
    IF miss # 0 THEN [th EXCEPT !.pc = "done", !.pos = miss, !.result = KeyError]
    ELSE IF to = Len(th.keys) THEN [th EXCEPT !.pc = "return", !.pos = to]
    ELSE [th EXCEPT !.pos = to]

Deletes(t, from, to, miss) ==
    /\ translation_cache' =
           Without(translation_cache,
                   {threads[t].keys[j] : j \in from..(IF miss = 0 THEN to ELSE miss - 1)})
    /\ Moves(t, AfterDeletions(threads[t], to, miss))

DeletesUpTo(t, from, to) ==
    Deletes(t, from, to, FirstMissing(threads[t].keys, from, to, Originals(translation_cache)))

\* cache_translation: for key in keys_to_remove: del _translation_cache[key]
CacheDelete(t) ==
    /\ At(t, "cache_translation", "delete")
    /\ DeletesUpTo(t, threads[t].pos + 1,
                   Min(threads[t].pos + DeleteBatch, Len(threads[t].keys)))
    /\ UNCHANGED <<sequentialVars, indexer, cache_dir>>

\* cache_translation: return {"status": "cached", "cache_size": len(...)}
CacheReturn(t) ==
    /\ At(t, "cache_translation", "return")
    /\ Ends(t, [status |-> "cached", cache_size |-> Len(translation_cache)])
    /\ UNCHANGED <<sequentialVars, translation_cache, indexer, cache_dir>>

\* translate_to_english: the test for a blank text and `text in
\* _translation_cache`; a text that is not cached is answered at once
TranslateTest(t) ==
    /\ At(t, "translate_to_english", "start")
    /\ IF threads[t].text.lang # "blank" /\ Cached(translation_cache, threads[t].text)
       THEN Moves(t, [threads[t] EXCEPT !.pc = "read"])
       ELSE Ends(t, TranslateToEnglish(translation_cache, threads[t].text))
    /\ UNCHANGED <<sequentialVars, translation_cache, indexer, cache_dir>>

\* translate_to_english: "translated_text": _translation_cache[text]
TranslateRead(t) ==
    /\ At(t, "translate_to_english", "read")
    /\ IF Cached(translation_cache, threads[t].text)
       THEN Ends(t, TranslateToEnglish(translation_cache, threads[t].text))
       ELSE Ends(t, KeyError)
    /\ UNCHANGED <<sequentialVars, translation_cache, indexer, cache_dir>>

\* generate_embedding: _load_from_cache.  A file that is being written does
\* not parse, the exception is caught and the embedding is generated
EmbedLoad(t) ==
    /\ At(t, "generate_embedding", "start")
    /\ IF cache_dir["q_query"] = "complete"
       THEN Ends(t, [status |-> "embedding", vector |-> QueryVector])
       ELSE Moves(t, [threads[t] EXCEPT !.pc = "generate"])
    /\ UNCHANGED <<sequentialVars, translation_cache, indexer, cache_dir>>

\* generate_embedding: the call on the embedding backend
EmbedGenerate(t) ==
    /\ At(t, "generate_embedding", "generate")
    /\ Moves(t, [threads[t] EXCEPT !.pc = "open"])
    /\ UNCHANGED <<sequentialVars, translation_cache, indexer, cache_dir>>

\* _save_to_cache: open(cache_file, 'w') truncates the file
EmbedSaveOpen(t) ==
    /\ At(t, "generate_embedding", "open")
    /\ cache_dir' = [cache_dir EXCEPT !["q_query"] = "partial"]
    /\ Moves(t, [threads[t] EXCEPT !.pc = "dump"])
    /\ UNCHANGED <<sequentialVars, translation_cache, indexer>>

\* _save_to_cache: json.dump and close; generate_embedding returns the result
EmbedSaveDump(t) ==
    /\ At(t, "generate_embedding", "dump")
    /\ cache_dir' = [cache_dir EXCEPT !["q_query"] = "complete"]
    /\ Ends(t, [status |-> "embedding", vector |-> QueryVector])
    /\ UNCHANGED <<sequentialVars, translation_cache, indexer>>

\* the process has served translations before; two requests arrive
InitConcurrent ==
    /\ Idle
    /\ gen = Generator(TRUE, TRUE)
    /\ translation_cache \in {Filled(CacheLimit - 1), Filled(CacheLimit)}
    /\ indexer = NoIndexer
    /\ cache_dir = NoCacheFiles
    /\ \E c1, c2 \in ConcurrentCalls(translation_cache) :
          threads = [t \in Threads |->
                        Started(IF t = 1 THEN c1 ELSE c2, translation_cache)]

NextConcurrent ==
    \E t \in Threads :
        \/ GetIndexerTest(t)
        \/ GetIndexerCreate(t)
        \/ GetIndexerReturn(t)
        \/ CacheStore(t)
        \/ CacheSizeTest(t)
        \/ CacheDelete(t)
        \/ CacheReturn(t)
        \/ TranslateTest(t)
        \/ TranslateRead(t)
        \/ EmbedLoad(t)
        \/ EmbedGenerate(t)
        \/ EmbedSaveOpen(t)
        \/ EmbedSaveDump(t)

SpecConcurrent == InitConcurrent /\ [][NextConcurrent]_vars

(***************************************************************************)
(* Properties.  Vocabulary first: what a finished call was asked and what  *)
(* it did, read from req, env, out and log                                 *)
(***************************************************************************)
Served(entry) == pc = "done" /\ req.entry = entry

\* the top_k of the request, an omitted one meaning the configured default
RequestedTopK == IF req.top_k = <<>> THEN DefaultTopK ELSE req.top_k[1]

Did(op) == \E i \in 1..Len(log) : log[i].op = op

Embedded(key) == \E i \in 1..Len(log) : log[i].op = "generate_embedding" /\ log[i].arg = key

CountOf(op) == Cardinality({i \in 1..Len(log) : log[i].op = op})

Tagged(results, method) ==
    \E i \in 1..Len(results) :
        /\ "search_method" \in DOMAIN results[i].metadata
        /\ results[i].metadata["search_method"] = method

ScoresDescending(results) ==
    \A i \in 1..(Len(results) - 1) : results[i].score >= results[i + 1].score

DistinctIds(results) ==
    \A i, j \in 1..Len(results) : results[i].id = results[j].id => i = j

\* the ids and scores of a result list, metadata left aside
IdsAndScores(results) ==
    [i \in 1..Len(results) |-> <<results[i].id, results[i].score>>]

\* what a plain semantic search of the request's query returns
PlainSemantic ==
    SemanticSearchOp(env, req.query, req.top_k[1], req.filters, TRUE).res

(***************************************************************************)
(* C1: SemanticSearch.search and CodebaseIndexer.search return at most     *)
(* top_k results, for every top_k >= 0, an omitted top_k meaning the       *)
(* configured default.                                                     *)
(***************************************************************************)
C1_AtMostTopK ==
    (pc = "done" /\ req.entry \in {"search", "indexer"} /\ out.kind \in {"list", "response"})
        => Len(out.results) <= RequestedTopK

\* CodebaseIndexer.search is asked for zero results and returns some
C1_ZeroTopKAnswered ==
    /\ Served("indexer")
    /\ req.top_k = <<0>>
    /\ out.kind = "response"
    /\ Len(out.results) > 0

(***************************************************************************)
(* C2: every public search operation ends with a list, a response or a     *)
(* structured failure; no exception escapes the call.                      *)
(***************************************************************************)
C2_NoExceptionEscapes == pc = "done" => out.kind \in {"list", "response", "failure"}

\* search_with_description_fallback is called on a SemanticSearch that holds
\* no HyDE generator, and the call ends with an exception
C2_FallbackRaises ==
    /\ Served("fallback")
    /\ env["hyde"] = "absent"
    /\ out.kind = "raised"

(***************************************************************************)
(* C3: when reranking is requested and the base search returns results,    *)
(* the stages run in the order rerank, confidence filter (0.3), diversity  *)
(* filter (2 per file), truncation: the returned list is the first top_k   *)
(* of DiversityFilter(ConfidenceFilter(rerank(base results))), so every    *)
(* score is at least 0.3, no file occurs more than twice and the scores    *)
(* do not increase.                                                        *)
(***************************************************************************)
\* what the base search of the request returned
BaseResults ==
    SearchOp(env, req.query, EffectiveTopK(req.top_k), req.filters, req.search_type,
             req.use_hyde).res

FileOf(r) == Chunks[r.id].file_path

C3_RerankPipeline ==
    (Served("indexer") /\ req.use_reranking /\ out.kind = "response" /\ BaseResults # <<>>)
        => /\ out.results =
                 Limit(DiversityFilter(
                           ConfidenceFilter(Rerank(BaseResults, req.query.s, <<>>),
                                            Tenths(3)), 2),
                       EffectiveTopK(req.top_k))
           /\ \A i \in 1..Len(out.results) :
                 /\ out.results[i].score >= Tenths(3)
                 /\ Cardinality({j \in 1..Len(out.results) :
                                    FileOf(out.results[j]) = FileOf(out.results[i])}) <= 2
           /\ ScoresDescending(out.results)
           /\ \E i \in 1..(Len(log) - 3) :
                 /\ log[i].op = "rerank"
                 /\ log[i + 1].op = "confidence_filter"
                 /\ log[i + 2].op = "diversity_filter"
                 /\ log[i + 3].op = "truncate"
                 /\ \A j \in 1..(i - 1) : log[j].op \notin {"rerank", "confidence_filter",
                                                            "diversity_filter", "truncate"}

\* a reranked answer in which the confidence filter dropped a result and the
\* diversity filter dropped another
C3_BothFiltersDrop ==
    /\ Served("indexer")
    /\ req.use_reranking
    /\ out.kind = "response"
    /\ Len(BaseResults) = 4
    /\ Len(ConfidenceFilter(Rerank(BaseResults, req.query.s, <<>>), Tenths(3))) = 3
    /\ Len(out.results) = 2

(***************************************************************************)
(* C4: in two-stage HyDE search (hyde_full, HyDE enabled), when stage-1    *)
(* generation fails the call returns the results of a plain semantic       *)
(* search of the original query, embedded as a query and not tagged as     *)
(* HyDE, and performs no preliminary search and no stage-2 generation.     *)
(***************************************************************************)
C4_Stage1FailureFallsBack ==
    (/\ Served("search")
     /\ req.search_type = "hyde_full"
     /\ env["hyde"] = "enabled"
     /\ env["gen1"] \in {"none", "raise"})
        => /\ out.results = PlainSemantic
           /\ ~Did("generate_hyde_query_v2")
           /\ ~Embedded("q_doc")
           /\ ~Tagged(out.results, "hyde")

\* stage-1 generation failed, and the call went on to stage 2 and returned
\* results tagged as HyDE
C4_Stage1FailureGoesOn ==
    /\ Served("search")
    /\ req.search_type = "hyde_full"
    /\ env["hyde"] = "enabled"
    /\ env["gen1"] = "none"
    /\ Embedded("q_doc")
    /\ Did("generate_hyde_query_v2")
    /\ Tagged(out.results, "hyde")

(***************************************************************************)
(* C5: in two-stage HyDE search, when stage 1 succeeded with non-empty     *)
(* preliminary results and stage-2 generation fails, the call returns the  *)
(* preliminary results truncated to top_k and performs no final search.    *)
(***************************************************************************)
\* the preliminary results of stage 1
Preliminary ==
    SemanticSearchOp(env, HydeCode1, HydePrelimTopK, req.filters, FALSE).res

C5_Stage2FailureReturnsStage1 ==
    (/\ Served("search")
     /\ req.search_type = "hyde_full"
     /\ env["hyde"] = "enabled"
     /\ env["gen1"] = "text"
     /\ Preliminary # <<>>
     /\ env["gen2"] \in {"none", "raise"})
        => /\ out.results = Limit(Preliminary, req.top_k[1])
           /\ CountOf("search") = 1

\* stage-2 generation failed, and a final search ran all the same
C5_Stage2FailureSearchesAgain ==
    /\ Served("search")
    /\ req.search_type = "hyde_full"
    /\ env["hyde"] = "enabled"
    /\ env["gen1"] = "text"
    /\ env["gen2"] = "none"
    /\ CountOf("search") = 2
    /\ Tagged(out.results, "hyde")

GenDone == pc = "done" /\ genArgs.fn # "none"

NoBackendCall == \A i \in 1..Len(genOut.log) : genOut.log[i].key = "-"

SameCallAs(search_type, use_hyde) ==
    SearchOp(env, req.query, req.top_k[1], req.filters, search_type, use_hyde).res

C8_UnknownTypeAsSemantic ==
    (Served("search") /\ req.search_type = "fuzzy")
        => out.results = SameCallAs("semantic", req.use_hyde)

\* C8 as the code has it: an unrecognized search_type returns what
\* search_type "semantic" returns with use_hyde false, whatever use_hyde is
C8_UnknownTypeAsPlainSemantic ==
    (Served("search") /\ req.search_type = "fuzzy")
        => out.results = SameCallAs("semantic", FALSE)

\* an unrecognized search_type with use_hyde set and HyDE enabled, where the
\* semantic call would have returned HyDE results
C8_UnknownTypeWithHyde ==
    /\ Served("search")
    /\ req.search_type = "fuzzy"
    /\ req.use_hyde
    /\ env["hyde"] = "enabled"
    /\ out.results # <<>>
    /\ Tagged(SameCallAs("semantic", TRUE), "hyde_quick")

(***************************************************************************)
(* C9: in hybrid search without HyDE the semantic and keyword lists are    *)
(* merged by reciprocal rank fusion: each distinct id appears once, its    *)
(* merged score is determined by its rank positions in the two lists and   *)
(* not by the raw scores, and the output is sorted by merged score         *)
(* descending and truncated to top_k.                                      *)
(***************************************************************************)
HybridWithoutHyde ==
    /\ Served("search")
    /\ req.search_type = "hybrid"
    /\ (~req.use_hyde \/ env["hyde"] # "enabled")

\* the two lists _hybrid_search merges
SemanticLeg ==
    SemanticSearchOp(env, req.query, req.top_k[1] * 2, req.filters, TRUE).res

KeywordLeg == KeywordSearchOp(env, req.query, req.top_k[1] * 2, req.filters).res

RankFused(weights) ==
    IdsAndScores(Limit(ReciprocalRankFusion(<<SemanticLeg, KeywordLeg>>, weights),
                       req.top_k[1]))

C9_HybridIsRankFusion ==
    HybridWithoutHyde
        => /\ DistinctIds(out.results)
           /\ ScoresDescending(out.results)
           /\ Len(out.results) <= req.top_k[1]
           /\ \/ IdsAndScores(out.results) = RankFused(NoWeights)
              \/ IdsAndScores(out.results) = RankFused(Weights(<<7, 3>>))

\* the score of an id in a list, decayed by its position counted from 0;
\* 0 when the list does not hold the id
PositionDecayed(list, id) ==
    IF \E i \in 1..Len(list) : list[i].id = id
    THEN LET i == CHOOSE i \in 1..Len(list) : list[i].id = id
         IN  (list[i].score * (Len(list) - (i - 1))) \div Len(list)
    ELSE 0

WeightedSum(id) ==
    (7 * PositionDecayed(SemanticLeg, id) + 3 * PositionDecayed(KeywordLeg, id)) \div 10

\* C9 as the code has it: each distinct id of the two lists appears once, its
\* score is 0.7 * semantic + 0.3 * keyword, each raw score decayed by
\* (1 - position / length); the output is the top_k best, sorted descending
C9_HybridIsDecayedWeightedSum ==
    HybridWithoutHyde
        => /\ DistinctIds(out.results)
           /\ ScoresDescending(out.results)
           /\ Len(out.results) =
                 Min(req.top_k[1],
                     Cardinality(SeqToSet(Ids(SemanticLeg)) \cup SeqToSet(Ids(KeywordLeg))))
           /\ \A i \in 1..Len(out.results) :
                 /\ out.results[i].id \in
                        SeqToSet(Ids(SemanticLeg)) \cup SeqToSet(Ids(KeywordLeg))
                 /\ out.results[i].score = WeightedSum(out.results[i].id)
           /\ \A id \in SeqToSet(Ids(SemanticLeg)) \cup SeqToSet(Ids(KeywordLeg)) :
                 id \notin SeqToSet(Ids(out.results))
                     => \A i \in 1..Len(out.results) :
                            out.results[i].score >= WeightedSum(id)

\* a hybrid answer of three results found by both legs, one of them at
\* different places in the two lists
C9_HybridMerged ==
    /\ HybridWithoutHyde
    /\ Len(out.results) = 3
    /\ \A i \in 1..Len(out.results) :
          /\ out.results[i].metadata["semantic_score"] > 0
          /\ out.results[i].metadata["keyword_score"] > 0
    /\ \E i \in 1..Len(out.results) :
          PositionOf(SemanticLeg, out.results[i].id, 1)
              # PositionOf(KeywordLeg, out.results[i].id, 1)

(***************************************************************************)
(* C10: reciprocal rank fusion: each distinct result id appears exactly    *)
(* once in the output, its score is the sum over the lists containing it   *)
(* of weight[i] / (60 + rank_i), ranks counted from 1, and the output is   *)
(* sorted by that sum descending; the fused scores and ranking are the     *)
(* same for two inputs with the same rankings and different incoming       *)
(* scores.                                                                 *)
(***************************************************************************)
FusionDone == pc = "done" /\ rrfLists # <<>>

\* the 1-based rank of an id in a list, 0 when the list does not hold it
RankIn(list, id) ==
    IF \E i \in 1..Len(list) : list[i].id = id
    THEN CHOOSE i \in 1..Len(list) : list[i].id = id
    ELSE 0

WeightOf(i) == IF rrfWeights.none THEN 10 ELSE rrfWeights.w[i]

FusedScore(id) ==
    SumSeq([i \in 1..Len(rrfLists) |->
               IF RankIn(rrfLists[i], id) > 0
               THEN (WeightOf(i) * (One \div (60 + RankIn(rrfLists[i], id)))) \div 10
               ELSE 0])

InputIds == UNION {SeqToSet(Ids(rrfLists[i])) : i \in 1..Len(rrfLists)}

\* the same rankings with every incoming score replaced
Rescored(result_lists) ==
    [i \in 1..Len(result_lists) |->
        [j \in 1..Len(result_lists[i]) |->
            SearchResult(result_lists[i][j].id, One - result_lists[i][j].score,
                         result_lists[i][j].metadata)]]

C10_FusedByRank ==
    FusionDone
        => /\ DistinctIds(rrfOut)
           /\ SeqToSet(Ids(rrfOut)) = InputIds
           /\ \A i \in 1..Len(rrfOut) : rrfOut[i].score = FusedScore(rrfOut[i].id)
           /\ ScoresDescending(rrfOut)
           /\ IdsAndScores(ReciprocalRankFusion(Rescored(rrfLists), rrfWeights))
                  = IdsAndScores(rrfOut)

\* two weighted lists that share an id at different ranks and each hold an
\* id of their own
C10_SharedAndOwnIds ==
    /\ FusionDone
    /\ Len(rrfLists) = 2
    /\ ~rrfWeights.none
    /\ rrfWeights.w[1] # rrfWeights.w[2]
    /\ \E id \in InputIds :
          /\ RankIn(rrfLists[1], id) > 0
          /\ RankIn(rrfLists[2], id) > 0
          /\ RankIn(rrfLists[1], id) # RankIn(rrfLists[2], id)
    /\ Len(rrfOut) = 3

(***************************************************************************)
(* C11: reciprocal rank fusion is independent of list order: the same      *)
(* ranked lists, each with its weight, supplied in a different order give  *)
(* the same output list: the same ids, in the same order, with the same    *)
(* fused scores.                                                           *)
(***************************************************************************)
TwoListsFused == FusionDone /\ Len(rrfLists) = 2

\* the two lists of the call, each with its weight, the other way round
OtherOrder ==
    ReciprocalRankFusion(<<rrfLists[2], rrfLists[1]>>,
                         IF rrfWeights.none THEN NoWeights
                         ELSE Weights(<<rrfWeights.w[2], rrfWeights.w[1]>>))

FnDone(fn) == pc = "done" /\ fnArgs.fn = fn

\* the result of the call's input list that has the given id
InputOf(id) ==
    fnArgs.results[CHOOSE i \in 1..Len(fnArgs.results) : fnArgs.results[i].id = id]

\* the composite of the five signals of a candidate, for the call's query
Composite(r) ==
    Weighted(40, r.score)
        + Weighted(25, NameMatchScore(Chunks[r.id].name, ExtractKeywords(fnArgs.query)))
        + Weighted(15, DescriptionScore(Chunks[r.id].description,
                                        ExtractKeywords(fnArgs.query)))
        + Weighted(10, ChunkTypeScore(Chunks[r.id].chunk_type, fnArgs.query))
        + Weighted(10, FilePathScore(Chunks[r.id].file_path, ExtractKeywords(fnArgs.query)))

C12_RerankComposite ==
    FnDone("rerank")
        => /\ \A i \in 1..Len(fnOut) :
                 /\ fnOut[i].id \in SeqToSet(Ids(fnArgs.results))
                 /\ fnOut[i].score = Composite(InputOf(fnOut[i].id))
           /\ DistinctIds(fnOut)
           /\ ScoresDescending(fnOut)
           /\ fnArgs.top_k = <<>>
                 => SeqToSet(Ids(fnOut)) = SeqToSet(Ids(fnArgs.results))

\* four candidates reranked without a cut, the best of the input no longer
\* first
C12_RerankReorders ==
    /\ FnDone("rerank")
    /\ fnArgs.top_k = <<>>
    /\ Len(fnArgs.results) = 4
    /\ Len(fnOut) = 4
    /\ fnOut[1].id # fnArgs.results[1].id
    /\ fnOut[1].score > fnOut[4].score

(***************************************************************************)
(* C13: ConfidenceFilter.filter returns exactly the input results whose    *)
(* score is >= min_score, a score equal to the threshold being kept, in    *)
(* their original relative order; with min_score 0.3 the scores            *)
(* [0.9, 0.5, 0.2, 0.1] yield [0.9, 0.5].                                  *)
(***************************************************************************)
\* the place of a result of the output in the call's input list
PlaceInInput(r) == CHOOSE i \in 1..Len(fnArgs.results) : fnArgs.results[i] = r

\* the output holds results of the input only, in the order of the input
SubsequenceOfInput ==
    /\ \A i \in 1..Len(fnOut) : \E j \in 1..Len(fnArgs.results) : fnArgs.results[j] = fnOut[i]
    /\ \A i \in 1..(Len(fnOut) - 1) : PlaceInInput(fnOut[i]) < PlaceInInput(fnOut[i + 1])

Scores(results) == [i \in 1..Len(results) |-> results[i].score]

C13_ConfidenceKeepsAtLeastMin ==
    FnDone("confidence_filter")
        => /\ SubsequenceOfInput
           /\ \A j \in 1..Len(fnArgs.results) :
                 (\E i \in 1..Len(fnOut) : fnOut[i] = fnArgs.results[j])
                     <=> fnArgs.results[j].score >= fnArgs.min_score
           /\ (/\ fnArgs.min_score = Tenths(3)
               /\ Scores(fnArgs.results) = <<Tenths(9), Tenths(5), Tenths(2), Tenths(1)>>)
                 => Scores(fnOut) = <<Tenths(9), Tenths(5)>>

\* a list with a score below, a score at and a score above the threshold
C13_ScoreAtThreshold ==
    /\ FnDone("confidence_filter")
    /\ fnArgs.min_score = Tenths(3)
    /\ Scores(fnArgs.results) = <<Tenths(2), Tenths(3), Tenths(9), Tenths(1)>>
    /\ Scores(fnOut) = <<Tenths(3), Tenths(9)>>

(***************************************************************************)
(* C14: DiversityFilter.filter keeps, for each distinct file_path, exactly *)
(* the first max_per_file results of that file in input order and drops    *)
(* all later ones; the output is a subsequence of the input in which no    *)
(* file_path occurs more than max_per_file times.                          *)
(***************************************************************************)
\* how many of the first n results of a list are in the file of result r
InFileAmong(results, n, r) ==
    Cardinality({i \in 1..n : FileOf(results[i]) = FileOf(r)})

C14_DiversityKeepsFirstPerFile ==
    FnDone("diversity_filter")
        => /\ SubsequenceOfInput
           /\ \A j \in 1..Len(fnArgs.results) :
                 (\E i \in 1..Len(fnOut) : fnOut[i] = fnArgs.results[j])
                     <=> InFileAmong(fnArgs.results, j, fnArgs.results[j])
                             <= fnArgs.max_per_file
           /\ \A i \in 1..Len(fnOut) :
                 InFileAmong(fnOut, Len(fnOut), fnOut[i]) <= fnArgs.max_per_file

\* three results of one file around a result of another: the third of the
\* file is dropped, the result after it is kept
C14_ThirdOfFileDropped ==
    /\ FnDone("diversity_filter")
    /\ fnArgs.max_per_file = 2
    /\ Len(fnArgs.results) = 4
    /\ InFileAmong(fnArgs.results, 3, fnArgs.results[3]) = 3
    /\ fnOut = <<fnArgs.results[1], fnArgs.results[2], fnArgs.results[4]>>

(***************************************************************************)
(* C20: reranker name-match sub-score: when every query keyword equals one *)
(* of the camelCase/underscore parts of the candidate name (query "parse   *)
(* user data" against name parse_user_data), the sub-score is 1.0.         *)
(***************************************************************************)
Keywords == ExtractKeywords(fnArgs.query)

AllKeywordsAreParts ==
    /\ FnDone("_compute_name_match_score")
    /\ Keywords # <<>>
    /\ \A i \in 1..Len(Keywords) : Keywords[i] \in NameParts(fnArgs.name)

C20_AllPartsScoreOne == AllKeywordsAreParts => fnOut = One

\* C20 as the code has it: a keyword that equals a part of the name counts
\* 0.8, and 1.0 if it equals the entire name; the sub-score is the average
\* over the keywords, so 0.8 when no keyword is the entire name
C20_AllPartsScoreAverage ==
    AllKeywordsAreParts
        => /\ fnOut = SumSeq([i \in 1..Len(Keywords) |->
                                IF Keywords[i] = Lower(fnArgs.name)
                                THEN Tenths(10) ELSE Tenths(8)]) \div Len(Keywords)
           /\ (\A i \in 1..Len(Keywords) : Keywords[i] # Lower(fnArgs.name))
                 => fnOut = Tenths(8)

\* query "parse user data" against the name parse_user_data
C20_ParseUserData ==
    /\ AllKeywordsAreParts
    /\ fnArgs.query = ParseUserData
    /\ Len(Keywords) = 3
    /\ fnArgs.name = <<"p","a","r","s","e","_","u","s","e","r","_","d","a","t","a">>
    /\ fnOut = Tenths(8)

(***************************************************************************)
(* C15: if embedding generation fails (returns null) for the text a search *)
(* branch needs, that branch returns an empty list without raising and     *)
(* without querying the vector index: semantic, description, hyde and      *)
(* hyde_full searches return an empty list, while a hybrid search still    *)
(* returns the results contributed by its keyword branch.                  *)
(***************************************************************************)
\* the i-th call of the request asked for an embedding and got None
EmbeddingFailedAt(i) ==
    /\ log[i].op = "generate_embedding"
    /\ (log[i].key = "-" \/ env[log[i].key] = NoVector)

EmbeddingFailed == \E i \in 1..Len(log) : EmbeddingFailedAt(i)

\* a nearest-neighbour query of the index (the scan of the keyword search is
\* none)
VectorQuery(c) ==
    \/ c.op = "search" /\ c.arg = "content"
    \/ c.op = "search_by_description"

\* no failed embedding is followed by a nearest-neighbour query of the index
NoIndexQueryAfterFailure ==
    \A i \in 1..Len(log) :
        EmbeddingFailedAt(i) => (i = Len(log) \/ ~VectorQuery(log[i + 1]))

C15_EmbeddingFailureEmpties ==
    /\ (/\ Served("search")
        /\ req.search_type \in {"semantic", "description", "hyde", "hyde_full"}
        /\ EmbeddingFailed)
          => /\ out.kind = "list"
             /\ out.results = <<>>
             /\ NoIndexQueryAfterFailure
    /\ (HybridWithoutHyde /\ EmbeddingFailed)
          => /\ out.kind = "list"
             /\ Ids(out.results) = Ids(Limit(KeywordLeg, req.top_k[1]))
             /\ NoIndexQueryAfterFailure
             /\ CountOf("search") = 1

\* a hybrid search whose query embedding failed and whose keyword branch
\* found results
C15_HybridKeepsKeywordResults ==
    /\ HybridWithoutHyde
    /\ req.query = ParseUser
    /\ env["q_query"] = NoVector
    /\ Len(out.results) >= 2
    /\ \A i \in 1..Len(out.results) : out.results[i].metadata["semantic_score"] = 0

(***************************************************************************)
(* C17: for every search type, the results the orchestrator returns are    *)
(* ordered best first, a higher score being better: the scores along the   *)
(* returned list do not increase, and every score produced from a          *)
(* nearest-neighbour hit equals 1.0 minus the distance the index reported. *)
(***************************************************************************)
\* the vector the last embedding call of the request returned
LastVector ==
    env[log[CHOOSE i \in 1..Len(log) :
                /\ log[i].op = "generate_embedding"
                /\ \A j \in (i + 1)..Len(log) : log[j].op # "generate_embedding"].key]

\* the request was answered with the hits of one nearest-neighbour query
AnsweredByVectorQuery ==
    /\ Served("search")
    /\ req.search_type \in {"semantic", "hyde", "hyde_full", "description", "fuzzy"}
    /\ out.results # <<>>

\* the distance the index reported for a hit
ReportedDistance(id) ==
    IF req.search_type = "description"
    THEN Hundredths(DescriptionDistance[LastVector][id])
    ELSE Hundredths(ContentDistance[LastVector][id])

C17_BestFirst ==
    /\ (pc = "done" /\ req.entry \in {"search", "fallback", "indexer"}
            /\ out.kind \in {"list", "response"})
          => ScoresDescending(out.results)
    /\ AnsweredByVectorQuery
          => \A i \in 1..Len(out.results) :
                 out.results[i].score = One - ReportedDistance(out.results[i].id)

\* three nearest-neighbour hits returned with falling scores
C17_ThreeHitsFalling ==
    /\ AnsweredByVectorQuery
    /\ Len(out.results) = 3
    /\ out.results[1].score > out.results[2].score
    /\ out.results[2].score > out.results[3].score
    /\ out.results[1].score = One - ReportedDistance(out.results[1].id)

(***************************************************************************)
(* C18: keyword search returns only candidates with a positive lexical     *)
(* score, the score being (number of query words occurring in the content) *)
(* + 2 * (number of query words occurring in the name), sorted by that     *)
(* score descending and cut to top_k; an empty query string returns an     *)
(* empty list.                                                             *)
(***************************************************************************)
KeywordServed == Served("search") /\ req.search_type = "keyword"

\* the words of the request's query, and how many of them occur in a text,
\* letter case aside
QueryWords == SplitWords(Lower(req.query.s))

Occurring(text) ==
    Cardinality({i \in 1..Len(QueryWords) : Contains(Lower(text), QueryWords[i])})

LexicalScore(id) == Occurring(Chunks[id].text) + 2 * Occurring(Chunks[id].name)

\* the candidates: the chunks that pass the request's filters
KeywordCandidates == {id \in ChunkIds : PassesFilters(id, req.filters)}

C18_KeywordScores ==
    KeywordServed
        => /\ out.kind = "list"
           /\ DistinctIds(out.results)
           /\ \A i \in 1..Len(out.results) :
                 /\ out.results[i].id \in KeywordCandidates
                 /\ LexicalScore(out.results[i].id) > 0
                 /\ out.results[i].score = LexicalScore(out.results[i].id) * One
           /\ ScoresDescending(out.results)
           /\ Len(out.results) =
                 Min(req.top_k[1],
                     Cardinality({id \in KeywordCandidates : LexicalScore(id) > 0}))
           /\ \A id \in KeywordCandidates :
                 id \notin SeqToSet(Ids(out.results))
                     => \A i \in 1..Len(out.results) :
                            out.results[i].score >= LexicalScore(id) * One
           /\ req.query.s = <<>> => out.results = <<>>

\* a keyword search cut to top_k: it leaves out a candidate of a lower
\* positive score, and a candidate no query word occurs in
C18_KeywordRanked ==
    /\ KeywordServed
    /\ Len(out.results) = 2
    /\ req.top_k = <<2>>
    /\ \E id \in KeywordCandidates :
          /\ id \notin SeqToSet(Ids(out.results))
          /\ LexicalScore(id) > 0
          /\ LexicalScore(id) * One < out.results[2].score
    /\ \E id \in KeywordCandidates : LexicalScore(id) = 0

(***************************************************************************)
(* C16  When one record of the index's answer is malformed (its            *)
(* description field is missing), the search skips that record and still   *)
(* returns the SearchResults built from the well-formed records of the     *)
(* same answer. Stated for the searches answered by one conversion of one  *)
(* index answer: semantic, description and unrecognized types without      *)
(* use_hyde.                                                               *)
(***************************************************************************)
\* a search answered by converting the rows of one nearest-neighbour query,
\* on an index one of whose records is malformed
OneConversionOnMalformed ==
    /\ Served("search")
    /\ env["index"] = "rows"
    /\ env["bad"] # NoRow
    /\ req.search_type \in {"semantic", "description", "fuzzy"}
    /\ ~req.use_hyde

WithoutRecord(results, id) == SelectSeq(results, LAMBDA x : x.id # id)

\* the SearchResults of the same answer had the record been well-formed
SameAnswerWellFormed == Run([env EXCEPT !["bad"] = NoRow], req).res

C16_MalformedRecordSkipped ==
    OneConversionOnMalformed
        => /\ out.kind = "list"
           /\ out.results = WithoutRecord(SameAnswerWellFormed, env["bad"])

\* the index answered with the malformed record next to well-formed ones,
\* and the search returned nothing
C16_WholeResultSetLost ==
    /\ OneConversionOnMalformed
    /\ req.search_type = "semantic"
    /\ env["bad"] \in SeqToSet(Ids(SameAnswerWellFormed))
    /\ Len(WithoutRecord(SameAnswerWellFormed, env["bad"])) >= 2
    /\ out.kind = "list"
    /\ out.results = <<>>

(***************************************************************************)
(* C19  For a codebase with zero indexed chunks (the index answers every   *)
(* query with an empty list), the search returns an empty list without     *)
(* raising, for every search_type, with and without use_hyde and           *)
(* use_reranking.                                                          *)
(***************************************************************************)
SearchedEmptyCodebase ==
    /\ pc = "done"
    /\ req.entry \in {"search", "indexer"}
    /\ env["index"] = "empty"

C19_EmptyCodebaseEmptyResult ==
    SearchedEmptyCodebase
        => /\ out.kind = (IF req.entry = "indexer" THEN "response" ELSE "list")
           /\ out.results = <<>>

\* a reranked two-stage HyDE search through the indexer on a codebase without
\* chunks: the preliminary query was put to the index and nothing came back
C19_HydeFullOnEmptyCodebase ==
    /\ SearchedEmptyCodebase
    /\ req.entry = "indexer"
    /\ req.search_type = "hyde_full"
    /\ req.use_reranking
    /\ req.query = ParseUser
    /\ \E i \in 1..Len(log) : VectorQuery(log[i])
    /\ out.results = <<>>

(***************************************************************************)
(* C21  For the query "authenticate user" over a codebase holding a        *)
(* function authenticate_user (description "Verify user credentials") and  *)
(* an unrelated function parse_json, a hybrid search with reranking ranks  *)
(* authenticate_user strictly above parse_json, for every distance the     *)
(* vector index may report for the two chunks.                             *)
(***************************************************************************)
HybridRerankedOverAuth ==
    /\ Served("indexer")
    /\ env["index"] = "auth"
    /\ req.search_type = "hybrid"
    /\ req.use_reranking
    /\ out.kind = "response"

C21_AuthenticateUserAboveParseJson ==
    HybridRerankedOverAuth
        => /\ AuthenticateUser \in SeqToSet(Ids(out.results))
           /\ \A i, j \in 1..Len(out.results) :
                 (out.results[i].id = AuthenticateUser /\ out.results[j].id = ParseJson)
                     => i < j /\ out.results[i].score > out.results[j].score

\* the index reports parse_json at distance 0 and authenticate_user at the
\* largest distance, and both are in the answer
C21_ParseJsonNearest ==
    /\ HybridRerankedOverAuth
    /\ env["d_json"] = 0
    /\ env["d_auth"] = 200
    /\ Ids(out.results) = <<AuthenticateUser, ParseJson>>

(***************************************************************************)
(* C22  search_with_description_fallback returns the reranked description  *)
(* results (at most top_k) only when the description search is non-empty,  *)
(* the relevance judge is available and it judges the top reranked result  *)
(* relevant; in every other case (no description results, judge            *)
(* unavailable, judge error, judged not relevant) it does what the         *)
(* two-stage HyDE search does and returns its results, a judge failure     *)
(* being treated as not relevant.                                          *)
(***************************************************************************)
FallbackServed == pc = "done" /\ req.entry = "fallback"

\* what the description search of the request found
DescriptionFound ==
    DescriptionSearchOp(env, req.query, DescriptionTopK, req.filters).res

JudgedRelevant == DescriptionFound # <<>> /\ env["judge"] = "relevant"

\* what the two-stage HyDE search of the request does
TwoStageHyde == HydeSearchOp(env, req.query, req.top_k[1], req.filters)

IsDescriptionAnswer ==
    /\ out.kind = "list"
    /\ out.results =
          Tag(Limit(Rerank(DescriptionFound, req.query.s, <<DescriptionTopK>>),
                    req.top_k[1]),
              [search_method |-> "description_fallback", relevance_judgment |-> "relevant"])

IsHydeAnswer ==
    /\ (out.kind = "raised") = TwoStageHyde.exc
    /\ ~TwoStageHyde.exc
          => /\ out.kind = "list"
             /\ IdsAndScores(out.results) = IdsAndScores(TwoStageHyde.res)
             /\ \A i \in 1..Len(out.results) :
                   out.results[i].metadata.search_method \in
                       {"hyde", "description_fallback_hyde"}

C22_DescriptionElseHyde ==
    FallbackServed => IF JudgedRelevant THEN IsDescriptionAnswer ELSE IsHydeAnswer

\* the judge found the top description result not relevant, and the caller
\* got the HyDE results, which differ from the description results
C22_NotRelevantFallsBack ==
    /\ FallbackServed
    /\ DescriptionFound # <<>>
    /\ env["judge"] = "not_relevant"
    /\ out.kind = "list"
    /\ out.results # <<>>
    /\ Ids(out.results) # Ids(Limit(Rerank(DescriptionFound, req.query.s,
                                           <<DescriptionTopK>>), req.top_k[1]))

(***************************************************************************)
(* C23  find_class_methods(class_name, codebase_name, top_k) returns the   *)
(* methods within the given class: whenever the index holds chunks whose   *)
(* parent_name equals class_name and the embedding backend is available,   *)
(* the call returns a non-empty list of at most top_k results, all with    *)
(* parent_name equal to class_name.                                        *)
(***************************************************************************)
ClassAsked == req.filters.parent_name

MethodsIndexed == {i \in ChunkIds : Chunks[i].parent_name = ClassAsked}

EmbeddingBackendAvailable == \A k \in EmbedKeys : env[k] # NoVector

AskedForClassWithMethods ==
    /\ Served("find_class_methods")
    /\ MethodsIndexed # {}
    /\ EmbeddingBackendAvailable
    /\ req.top_k[1] >= 1

C23_ClassMethodsFound ==
    AskedForClassWithMethods
        => /\ out.kind = "list"
           /\ out.results # <<>>
           /\ Len(out.results) <= req.top_k[1]
           /\ \A i \in 1..Len(out.results) : out.results[i].id \in MethodsIndexed

\* the class has a method in the index, the embedding backend is there, and
\* the call returned nothing without putting a query to the index
C23_NoMethodReturned ==
    /\ AskedForClassWithMethods
    /\ out.kind = "list"
    /\ out.results = <<>>
    /\ \A i \in 1..Len(log) : ~VectorQuery(log[i])

(***************************************************************************)
(* C24  Reranker chunk-type sub-score: whenever the query contains a       *)
(* trigger word for a type T (function, class or method) and the           *)
(* candidate's chunk_type is exactly T, the sub-score is 1.0; in           *)
(* particular a candidate of chunk_type method scores 1.0 for a query      *)
(* containing the word "method".                                           *)
(***************************************************************************)
\* the query of the call holds a trigger word of the preference
Triggers(pref) == \E w \in pref.words : Contains(Lower(fnArgs.query), w)

C24_ExactTypeScoresOne ==
    FnDone("_compute_chunk_type_score")
        => \A i \in 1..Len(TypePreferences) :
               (Triggers(TypePreferences[i]) /\ fnArgs.name = <<TypePreferences[i].type>>)
                   => fnOut = One

\* a method candidate scored 0.7 for a query that holds the word "method"
C24_MethodForMethodQueryScoresCrossMatch ==
    /\ FnDone("_compute_chunk_type_score")
    /\ fnArgs.name = <<"method">>
    /\ Contains(Lower(fnArgs.query), <<"m","e","t","h","o","d">>)
    /\ fnOut = Tenths(7)

(***************************************************************************)
(* C25  Every score that reaches the reranker's vector signal is a         *)
(* similarity in [0,1], for every search type that can precede reranking,  *)
(* so that with the default weights every reranked composite score lies in *)
(* [0,1].                                                                  *)
(***************************************************************************)
RerankedResponse ==
    /\ Served("indexer")
    /\ req.use_reranking
    /\ out.kind = "response"

InUnitInterval(x) == 0 <= x /\ x <= One

C25_RerankedScoresInUnitInterval ==
    RerankedResponse
        => \A i \in 1..Len(out.results) :
               /\ InUnitInterval(out.results[i].metadata.vector_score)
               /\ InUnitInterval(out.results[i].score)

\* a reranked keyword search: the count of lexical matches went into the
\* vector signal, and the composite score is above 1
C25_KeywordCountAsVectorSignal ==
    /\ RerankedResponse
    /\ req.search_type = "keyword"
    /\ \E i \in 1..Len(out.results) :
          /\ out.results[i].metadata.vector_score
                = out.results[i].metadata.keyword_matches * One
          /\ out.results[i].metadata.vector_score > One
          /\ out.results[i].score > One

(***************************************************************************)
(* C26  Along any pipeline a SearchResult passes through (hybrid merge,    *)
(* HyDE tagging, RRF, rerank, description-fallback tagging), its metadata  *)
(* only grows: no stage removes a key that an earlier stage recorded, and  *)
(* no stage overwrites the value an earlier stage recorded under an        *)
(* existing key.  Stated for the last stage of each public operation: the  *)
(* tagging of search_with_description_fallback and the reranking of        *)
(* CodebaseIndexer.search.                                                 *)
(***************************************************************************)
\* every key a result carried before the stage is there after it, with the
\* value it had
MetadataKept(before, after) ==
    \A i \in 1..Len(before), j \in 1..Len(after) :
        before[i].id = after[j].id
            => \A k \in DOMAIN before[i].metadata :
                   /\ k \in DOMAIN after[j].metadata
                   /\ after[j].metadata[k] = before[i].metadata[k]

\* what SemanticSearch.search handed to the reranking of CodebaseIndexer.search
SearchedBeforeRerank ==
    SearchOp(env, req.query, EffectiveTopK(req.top_k), req.filters, req.search_type,
             req.use_hyde).res

C26_MetadataOnlyGrows ==
    /\ (FallbackServed /\ out.kind = "list" /\ JudgedRelevant)
          => MetadataKept(DescriptionFound, out.results)
    /\ (FallbackServed /\ out.kind = "list" /\ ~JudgedRelevant)
          => MetadataKept(TwoStageHyde.res, out.results)
    /\ RerankedResponse => MetadataKept(SearchedBeforeRerank, out.results)

\* the fallback tagged a HyDE result: the search_method "hyde" that the HyDE
\* search recorded is gone, "description_fallback_hyde" stands in its place
C26_HydeTagOverwritten ==
    /\ FallbackServed
    /\ out.kind = "list"
    /\ ~TwoStageHyde.exc
    /\ \E i \in 1..Len(TwoStageHyde.res), j \in 1..Len(out.results) :
          /\ TwoStageHyde.res[i].id = out.results[j].id
          /\ TwoStageHyde.res[i].metadata.search_method = "hyde"
          /\ out.results[j].metadata.search_method = "description_fallback_hyde"

(***************************************************************************)
(* C27  Translation cache: after any sequence of cache_translation and     *)
(* clear_translation_cache calls the cache holds at most 1000 entries; an  *)
(* insertion that makes it exceed 1000 entries evicts the oldest-inserted  *)
(* half and keeps the newest entries, including the entry just inserted,   *)
(* and a cached original is returned by translate_to_english until it is   *)
(* evicted or the cache is cleared.                                        *)
(***************************************************************************)
ToolDone(fn) == pc = "done" /\ toolArgs.fn = fn

\* the number of entries once the call's entry is stored, before any pruning
SizeOnceStored ==
    IF Cached(toolArgs.before, toolArgs.text)
    THEN Len(toolArgs.before) ELSE Len(toolArgs.before) + 1

\* the oldest-inserted PruneCount entries are gone, the others are there in
\* their order, and the last one is the entry of the call
OldestHalfEvicted ==
    /\ Len(translation_cache) = SizeOnceStored - PruneCount
    /\ \A i \in 1..PruneCount : ~Cached(translation_cache, toolArgs.before[i].original)
    /\ \A i \in (PruneCount + 1)..Len(toolArgs.before) :
          translation_cache[i - PruneCount] = toolArgs.before[i]
    /\ translation_cache[Len(translation_cache)]
          = [original |-> toolArgs.text, translated |-> toolArgs.translated]

\* no entry left the cache, and the entry of the call is in it
NothingEvicted ==
    /\ Len(translation_cache) = SizeOnceStored
    /\ Cached(translation_cache, toolArgs.text)
    /\ CachedTranslation(translation_cache, toolArgs.text) = toolArgs.translated
    /\ \A i \in 1..Len(toolArgs.before) :
          toolArgs.before[i].original # toolArgs.text
              => translation_cache[i] = toolArgs.before[i]

CacheCappedAndPruned ==
    /\ Len(translation_cache) <= CacheLimit
    /\ ToolDone("cache_translation")
          => IF SizeOnceStored > CacheLimit THEN OldestHalfEvicted ELSE NothingEvicted
    /\ ToolDone("clear_translation_cache") => translation_cache = <<>>
    /\ ToolDone("translate_to_english") => translation_cache = toolArgs.before

\* translate_to_english answered with the cached translation of its text
AnsweredFromCache ==
    /\ toolOut.cached
    /\ toolOut.translated_text = CachedTranslation(translation_cache, toolArgs.text)

\* the claim as stated: every cached original is answered from the cache
C27_EveryCachedOriginalReturned ==
    /\ CacheCappedAndPruned
    /\ (ToolDone("translate_to_english") /\ Cached(translation_cache, toolArgs.text))
          => AnsweredFromCache

\* the claim for the originals that are not blank
C27_CachedNonBlankOriginalReturned ==
    /\ CacheCappedAndPruned
    /\ (ToolDone("translate_to_english") /\ Cached(translation_cache, toolArgs.text)
            /\ toolArgs.text.lang # "blank")
          => AnsweredFromCache
    /\ (ToolDone("translate_to_english") /\ toolArgs.text.lang = "blank")
          => ~toolOut.cached /\ toolOut.translated_text = toolArgs.text

\* the insertion of a new original into a cache of 1000 entries, which left
\* the 501 newest
C27_InsertionPruned ==
    /\ ToolDone("cache_translation")
    /\ Len(toolArgs.before) = CacheLimit
    /\ ~Cached(toolArgs.before, toolArgs.text)
    /\ Len(translation_cache) = CacheLimit + 1 - PruneCount
    /\ Cached(translation_cache, toolArgs.text)

(***************************************************************************)
(* Translation of the query in the description search                      *)
(***************************************************************************)
\* the two ends of the range of Hangul syllables that translate_to_english
\* looks for, each named by its code point
HangulChars == {"U+AC00", "U+D7A3"}

\* re.search(r'[U+AC00-U+D7A3]', text): the text holds a Hangul syllable
ContainsKorean(s) == \E i \in 1..Len(s) : s[i] \in HangulChars

DescriptionSearched == Served("search") /\ req.search_type = "description"

\* the description search ran the translation agent
TranslatorInvoked ==
    /\ \E i \in 1..Len(log) : log[i].op = "translation_agent"
    /\ env["trans"] # "absent"

\* every result records the query and its translation
RecordsBothQueries ==
    \A i \in 1..Len(out.results) :
        /\ out.results[i].metadata.original_query = req.query.s
        /\ out.results[i].metadata.translated_query = Translation.s

\* C28: the description search translates the query only when a translation
\* agent is configured and the query contains non-Latin script: a Latin-only
\* query is embedded unchanged and the translator is not invoked, a failed
\* translation leaves the original query in use, and the results of a
\* translated query record the original and the translated query
C28_TranslatesOnlyNonLatin ==
    DescriptionSearched
        => /\ TranslatorInvoked
                 <=> (env["trans"] # "absent" /\ ContainsKorean(req.query.s))
           /\ ~ContainsKorean(req.query.s)
                 => Embedded("q_query") /\ ~Embedded("t_query")
           /\ env["trans"] = "raise"
                 => Embedded("q_query") /\ ~Embedded("t_query")
           /\ Embedded("t_query") => RecordsBothQueries

\* the description search of a Latin-only query with a translation agent
\* configured: the agent ran, and its answer was embedded in place of the
\* query
C28_LatinQueryTranslated ==
    /\ DescriptionSearched
    /\ ~ContainsKorean(req.query.s)
    /\ TranslatorInvoked
    /\ Embedded("t_query")
    /\ ~Embedded("q_query")
    /\ out.results # <<>>
    /\ RecordsBothQueries

(***************************************************************************)
(* Concurrent requests                                                     *)
(***************************************************************************)
Finished(t) == threads[t].pc = "done"

\* the request on thread t failed with an exception
Failed(t) == Finished(t) /\ threads[t].result = KeyError

\* C29: concurrent requests share no mutable state: under every
\* interleaving of two requests each request returns what it returns when
\* run alone, no operation fails because of the other request's writes, and
\* at most one global indexer instance is ever created
C29_RequestsIsolated ==
    /\ \A t \in Threads :
          Finished(t) => ~Failed(t) /\ threads[t].result = threads[t].alone
    /\ indexer.created <= 1

\* two requests called get_indexer, both found _indexer None, and each
\* created a CodebaseIndexer
C29_TwoIndexersCreated ==
    /\ \A t \in Threads : Finished(t) /\ threads[t].op = "get_indexer"
    /\ indexer.created = 2

\* two requests called cache_translation on a full cache; both took the
\* same keys to remove, and the second deletion of a key raised KeyError
PruneRaisedKeyError ==
    /\ \A t \in Threads : Finished(t) /\ threads[t].op = "cache_translation"
    /\ \E t \in Threads : Failed(t)

\* translate_to_english found its text cached, the other request's pruning
\* evicted it, and the read of the cached translation raised KeyError
CachedReadRaisedKeyError ==
    \E t \in Threads : Failed(t) /\ threads[t].op = "translate_to_english"

\* one request after the other, no step of one between the steps of the
\* other: translate_to_english answers with the translation that the other
\* request cached, where alone it asks for a translation
OtherRequestsWriteAnswered ==
    \E t \in Threads :
        /\ Finished(t)
        /\ threads[t].op = "translate_to_english"
        /\ threads[t].result.status = "answered"
        /\ threads[t].result.cached
        /\ ~threads[t].alone.cached

\* two requests embedded the same query while its cache file was absent:
\* both return the vector of the backend
BothEmbedded ==
    /\ \A t \in Threads :
          /\ Finished(t)
          /\ threads[t].op = "generate_embedding"
          /\ threads[t].result = threads[t].alone
    /\ cache_dir["q_query"] = "complete"

(***************************************************************************)
(* The intent of the embeddings on the HyDE paths                          *)
(***************************************************************************)
\* the texts the request embedded with the document intent
EmbeddedAsDocument ==
    {log[i].arg : i \in {j \in 1..Len(log) : /\ log[j].op = "generate_embedding"
                                             /\ log[j].arg \in {"q_doc", "h1_doc", "h2_doc"}}}

\* the results carry the tag of a HyDE search
TaggedAsHyde ==
    \E method \in {"hyde", "hyde_quick", "description_fallback_hyde"} :
        Tagged(out.results, method)

\* C30: every text the HyDE generator produced is embedded with the document
\* intent and every natural-language query with the query intent: on no
\* HyDE path, the paths after a generation failure included, is the query
\* embedded as a document or are results tagged as found with
\* HyDE-generated code when the text searched with was the query
C30_HydeEmbeddingIntent ==
    (pc = "done" /\ req.entry \in {"search", "fallback", "indexer"})
        => /\ ~Embedded("q_doc")
           /\ ~Embedded("h1_query") /\ ~Embedded("h2_query")
           /\ TaggedAsHyde => EmbeddedAsDocument \subseteq {"h1_doc", "h2_doc"}

\* the two-stage HyDE search with both generations failing: the query was the
\* only text embedded, as a document, and the results are tagged 'hyde' with
\* the length of the query as the length of the generated code
C30_QueryEmbeddedAsDocumentAndTagged ==
    /\ Served("search")
    /\ req.search_type = "hyde_full"
    /\ env["hyde"] = "enabled"
    /\ env["gen1"] # "text"
    /\ env["gen2"] # "text"
    /\ EmbeddedAsDocument = {"q_doc"}
    /\ ~Embedded("q_query")
    /\ out.results # <<>>
    /\ \A i \in 1..Len(out.results) :
          /\ out.results[i].metadata.search_method = "hyde"
          /\ out.results[i].metadata.hyde_v2_length = Len(req.query.s)

====
